---- MODULE Spec2Model ----
(***************************************************************************)
(* The structured diff and merge engine of the resume analyzer frontend    *)
(* (frontend/src/App.jsx): the word-level diff (diffWords), the change-set *)
(* extractor (buildChangeItems) and the selective merge                    *)
(* (buildUpdatedResumeData), driven by the review screen's decisions.      *)
(*                                                                         *)
(* JS values are represented as follows.                                   *)
(*   - a string is a TLA+ string; the texts the diff engine splits are     *)
(*     sequences of one-character strings, so that splitting is computed;  *)
(*   - an array is a sequence;                                             *)
(*   - a skill entry, whose keys are probed dynamically by the code, is    *)
(*     [props |-> its <<key, value>> pairs in insertion order];            *)
(*   - the other objects are records;                                      *)
(*   - a value that is not a string is the marker NotAString;              *)
(*   - undefined / null is the marker Undefined.                           *)
(***************************************************************************)
EXTENDS Integers, Sequences, FiniteSets, TLC

VARIABLES
  resumeJson,         \* App state: the original document
  analysisJson,       \* App state: the candidate document
  changeItems,        \* App state: the change set
  changeState,        \* App state: the decision map, item id -> BOOLEAN
  updatedResumeData,  \* useMemo: the merged document
  updatedSkillRefs,   \* the object each skill entry of the merged document is
  currentStep,        \* App state: 2 = analyzing, 3 = results
  resume0,            \* history: the original document as the server sent it
  analysis0,          \* history: the candidate document as the server sent it
  repeated,           \* history: the last merge had the arguments of the one before
  beforeText,         \* diffWords argument
  afterText,          \* diffWords argument
  operations,         \* diffWords: the tagged operations
  diffPc,             \* "input" before diffWords has run, "done" after
  rawResume,          \* server: the parsed resume the language model returned
  rawAnalysis,        \* server: the combined output of the optimizers
  serverResumeJson,   \* server: normalizeResumeJson(rawResume)
  serverAnalysisJson, \* server: normalizeAnalysisJson(rawAnalysis, serverResumeJson)
  normPc,             \* "raw", "resume" after the first call, "analysis" after the second
  builtItems,         \* the engine on its own: what buildChangeItems returned
  enginePc,           \* "input", "items" after buildChangeItems, "merged" after the merge
  exportDocxUrl,      \* the document the DOCX behind the URL was generated from, or Undefined
  exportingDocx,      \* the flag that disables the Download button
  exportDocxAbortRef, \* exportDocxAbortRef.current: a controller, or NoController
  exportRequests,     \* the /api/export-docx requests in flight
  exportCount,        \* the controllers created so far
  downloaded,         \* the last download: the file's document and the merged document then
  rawList,            \* a list normalizer on its own: the raw list
  keptList,       \* the resume's list at the same place, or undefined
  normalizedList,     \* what the list normalizer returned
  alignPc,            \* "skills", "points", then "skills-done", "points-done"
  isAnalyzing,        \* the flag of a running analysis
  abortRef,           \* abortRef.current: a controller, or NoController
  analysisRequests,   \* the /api/analyze requests in flight
  analysisCount,      \* the controllers startAnalysis created so far
  analysisFrom,       \* the controller of the request whose response is on screen
  cancelledAnalyses,  \* the controllers stored when cancelAnalysis was called
  error,              \* the error message shown
  lastEvent,          \* the last handler that ran
  renderJobs,         \* renderResumeText: resumeData.experience
  renderedLines,      \* the lines it pushed for the Experience section
  renderPc            \* "idle", "input", "done"

vars == <<resumeJson, analysisJson, changeItems, changeState, updatedResumeData,
          updatedSkillRefs,
          currentStep, resume0, analysis0, repeated, beforeText, afterText, operations, diffPc,
          rawResume, rawAnalysis, serverResumeJson, serverAnalysisJson, normPc,
          builtItems, enginePc, exportDocxUrl, exportingDocx, exportDocxAbortRef,
          exportRequests, exportCount, downloaded,
          rawList, keptList, normalizedList, alignPc,
          isAnalyzing, abortRef, analysisRequests, analysisCount, analysisFrom,
          cancelledAnalyses, error, lastEvent,
          renderJobs, renderedLines, renderPc>>

mergeVars == <<resumeJson, analysisJson, changeItems, changeState,
               updatedResumeData, updatedSkillRefs, currentStep, resume0, analysis0,
               repeated>>

diffVars == <<beforeText, afterText, operations, diffPc>>

alignVars == <<rawList, keptList, normalizedList, alignPc>>

normVars == <<rawResume, rawAnalysis, serverResumeJson, serverAnalysisJson, normPc, alignVars>>

engineVars == <<builtItems, enginePc>>

analysisVars == <<isAnalyzing, abortRef, analysisRequests, analysisCount, analysisFrom,
                  cancelledAnalyses, error, lastEvent>>

exportVars == <<exportDocxUrl, exportingDocx, exportDocxAbortRef, exportRequests,
                exportCount, downloaded>>

(***************************************************************************)
(* Generic helpers                                                         *)
(***************************************************************************)
\* undefined, where an object (a point, a skill entry, a job) is expected
Undefined == [undefined |-> TRUE]

\* a property value that is not a string (a number, an array), and the value
\* of a property the object does not have
NotAString == "<not-a-string>"

MissingValue == "<undefined>"

IsString(v) == v \notin {NotAString, MissingValue}

\* JS truthiness of a property value: '' and undefined are falsy
Truthy(v) == v \notin {"", MissingValue}

Max(a, b) == IF a >= b THEN a ELSE b

Range(s) == {s[i] : i \in 1..Len(s)}

\* Array.prototype.findIndex over the ids of the elements, 1-based; 0 when no
\* element has the wanted id (JS: -1). Array.prototype.filter is SelectSeq.
FindIndex(ids, wanted) ==
  IF \E i \in 1..Len(ids) : ids[i] = wanted
    THEN CHOOSE i \in 1..Len(ids) : ids[i] = wanted /\ \A k \in 1..(i - 1) : ids[k] # wanted
    ELSE 0

\* All sequences over S of length at most n
SeqUpTo(S, n) == UNION {[1..k -> S] : k \in 0..n}

(***************************************************************************)
(* Word-level diff engine: diffWords                                       *)
(***************************************************************************)
Whitespace == {" "}

\* String.prototype.split(/\s+/): the pieces between maximal whitespace runs,
\* empty pieces at the ends included.
RECURSIVE SplitFrom(_, _, _, _)
SplitFrom(text, i, piece, pieces) ==
  IF i > Len(text) THEN Append(pieces, piece)
  ELSE IF text[i] \in Whitespace
         THEN IF i > 1 /\ text[i - 1] \in Whitespace
                THEN SplitFrom(text, i + 1, piece, pieces)
                ELSE SplitFrom(text, i + 1, <<>>, Append(pieces, piece))
         ELSE SplitFrom(text, i + 1, Append(piece, text[i]), pieces)

SplitWhitespace(text) == SplitFrom(text, 1, <<>>, <<>>)

NonEmptyPiece(piece) == piece # <<>>

\* text.split(/\s+/).filter(Boolean)
Words(text) == SelectSeq(SplitWhitespace(text), NonEmptyPiece)

\* a comparison that ignores case
LowerCase(word) == [i \in 1..Len(word) |-> IF word[i] = "E" THEN "e" ELSE word[i]]

WordsEqualIgnoreCase(a, b) == LowerCase(a) = LowerCase(b)

\* beforeWords[i - 1] === afterWords[j - 1]
WordsEqual(a, b) == a = b

\* Math.max(dp[i - 1][j], dp[i][j - 1])
DpCell(up, left) == Max(up, left)

\* The LCS table dp[i][j], rows 0..m, columns 0..n
LcsTable(A, B) ==
  LET dp[i \in 0..Len(A), j \in 0..Len(B)] ==
        IF i = 0 \/ j = 0 THEN 0
        ELSE IF WordsEqual(A[i], B[j]) THEN dp[i - 1, j - 1] + 1
             ELSE DpCell(dp[i - 1, j], dp[i, j - 1])
  IN dp

PreferAdd(up, left) == up > left

\* dp[i - 1][j] >= dp[i][j - 1]: on a tie the before-word is removed
PreferRemove(up, left) == up >= left

Op(type, value) == [type |-> type, value |-> value]

\* The backtrack loops; operations.unshift puts each operation in front
RECURSIVE Backtrack(_, _, _, _, _, _)
Backtrack(A, B, dp, i, j, ops) ==
  IF i > 0 /\ j > 0
    THEN IF WordsEqual(A[i], B[j])
           THEN Backtrack(A, B, dp, i - 1, j - 1, <<Op("equal", A[i])>> \o ops)
           ELSE IF PreferRemove(dp[i - 1, j], dp[i, j - 1])
                  THEN Backtrack(A, B, dp, i - 1, j, <<Op("remove", A[i])>> \o ops)
                  ELSE Backtrack(A, B, dp, i, j - 1, <<Op("add", B[j])>> \o ops)
    ELSE IF i > 0
           THEN Backtrack(A, B, dp, i - 1, j, <<Op("remove", A[i])>> \o ops)
           ELSE IF j > 0
                  THEN Backtrack(A, B, dp, i, j - 1, <<Op("add", B[j])>> \o ops)
                  ELSE ops

\* diffWords up to the operations list
DiffOperations(before, after) ==
  LET A == Words(before)
      B == Words(after)
  IN Backtrack(A, B, LcsTable(A, B), Len(A), Len(B), <<>>)

OnlyEqual(op) == op.type = "equal"

NotAdd(op) == op.type # "add"

NotRemove(op) == op.type # "remove"

\* beforeHtml: the operations that are not 'add', in order
BeforeView(ops) == SelectSeq(ops, NotAdd)

\* afterHtml: the operations that are not 'remove', in order
AfterView(ops) == SelectSeq(ops, NotRemove)

(***************************************************************************)
(* Field accessors                                                         *)
(***************************************************************************)
\* Object.keys(entry) of a skill entry
ObjKeys(entry) == [i \in 1..Len(entry.props) |-> entry.props[i][1]]

\* entry[key]
ObjGet(entry, key) ==
  IF \E i \in 1..Len(entry.props) : entry.props[i][1] = key
    THEN entry.props[CHOOSE i \in 1..Len(entry.props) : entry.props[i][1] = key][2]
    ELSE MissingValue

NotIdKey(key) == key # "id"

\* extractSkillLabelValue
extractSkillLabelValue(entry) ==
  IF entry = Undefined THEN [label |-> "", value |-> ""]
  ELSE IF IsString(ObjGet(entry, "label")) \/ IsString(ObjGet(entry, "value"))
    THEN [label |-> IF IsString(ObjGet(entry, "label")) THEN ObjGet(entry, "label") ELSE "",
          value |-> IF IsString(ObjGet(entry, "value")) THEN ObjGet(entry, "value") ELSE ""]
    ELSE LET keys == SelectSeq(ObjKeys(entry), NotIdKey)
             label == IF keys = <<>> THEN "" ELSE keys[1]
             value == IF label # "" THEN ObjGet(entry, label) ELSE ""
         IN [label |-> label, value |-> IF IsString(value) THEN value ELSE ""]

\* skillEntryToText: "label: value", or the label alone
skillEntryToText(entry) ==
  LET lv == extractSkillLabelValue(entry)
  IN IF lv.label = "" /\ lv.value = "" THEN ""
     ELSE IF lv.value # "" THEN lv.label \o ": " \o lv.value ELSE lv.label

\* skillEntryLabel
skillEntryLabel(entry) == extractSkillLabelValue(entry).label

\* getSummaryText, for a summary object
getSummaryText(summary) == summary.text

\* getSummaryId
getSummaryId(summary) == IF summary.id # "" THEN summary.id ELSE "summary-1"

\* getPointText, for a point object or undefined
getPointText(point) == IF point = Undefined THEN "" ELSE point.text

getPointIdPositional(point, fallbackId) == fallbackId

\* getPointId
getPointId(point, fallbackId) ==
  IF point # Undefined /\ point.id # "" THEN point.id ELSE fallbackId

\* (entry && entry.id) || `skill-${index + 1}`, index 0-based
SkillKey(entry, index) ==
  IF Truthy(ObjGet(entry, "id")) THEN ObjGet(entry, "id")
  ELSE "skill-" \o ToString(index + 1)

\* entry?.id || ''
SkillIdOrEmpty(entry) ==
  IF entry # Undefined /\ Truthy(ObjGet(entry, "id")) THEN ObjGet(entry, "id") ELSE ""

(***************************************************************************)
(* new Map(): the keys in first-insertion order, each with the value that  *)
(* was set last                                                            *)
(***************************************************************************)
\* the keys as an array would keep them, repeats included
ArrayKeys(keys) == keys

\* keys[i] is the key under which list[i] is set
MapKeys(keys) ==
  LET first(i) == \A k \in 1..(i - 1) : keys[k] # keys[i]
      idx == {i \in 1..Len(keys) : first(i)}
      nth[n \in 1..Cardinality(idx)] ==
        CHOOSE i \in idx : Cardinality({k \in idx : k < i}) = n - 1
  IN [n \in 1..Cardinality(idx) |-> keys[nth[n]]]

\* map.get(key)?.entry : the value set last under the key
MapGet(keys, list, key) ==
  IF \E i \in 1..Len(keys) : keys[i] = key
    THEN list[CHOOSE i \in 1..Len(keys) :
                keys[i] = key /\ \A k \in (i + 1)..Len(keys) : keys[k] # key]
    ELSE Undefined

OrderedIdsCandidateFirst(resumeKeys, analysisKeys) ==
  LET InAnalysis(id) == id \in Range(analysisKeys)
      NotInAnalysis(id) == ~InAnalysis(id)
  IN MapKeys(analysisKeys) \o SelectSeq(MapKeys(resumeKeys), NotInAnalysis)

\* [...resumeMap.keys(), ...analysisMap.keys().filter((id) => !resumeMap.has(id))]
OrderedIds(resumeKeys, analysisKeys) ==
  LET NotInResume(id) == id \notin Range(resumeKeys)
  IN MapKeys(resumeKeys) \o SelectSeq(MapKeys(analysisKeys), NotInResume)

(***************************************************************************)
(* Change-set extractor: buildChangeItems                                  *)
(***************************************************************************)
IsItem(x) == x # Undefined

\* the forEach callbacks return early for the ids that yield no item
Compact(s) == SelectSeq(s, IsItem)

\* list[index] || {} and the like: Undefined past the end of the array
At(list, k) == IF k >= 1 /\ k <= Len(list) THEN list[k] ELSE Undefined

\* Array.isArray(job.points) ? job.points : []
PointsOf(job) == IF job = Undefined THEN <<>> ELSE job.points

\* parts.filter(Boolean).join(' · ')
JoinTruthy(parts) ==
  LET NonEmpty(x) == x # ""
      kept == SelectSeq(parts, NonEmpty)
      join[n \in 0..Len(kept)] ==
        IF n = 0 THEN ""
        ELSE IF n = 1 THEN kept[1] ELSE join[n - 1] \o " · " \o kept[n]
  IN join[Len(kept)]

SummaryChangedAlways(before, after) == after # before

\* summaryAfter && summaryAfter !== summaryBefore
SummaryChanged(before, after) == after # "" /\ after # before

SummaryItems(resume, analysis) ==
  LET summaryBefore == getSummaryText(resume.summary)
      summaryAfter == getSummaryText(analysis.summary)
      summaryId == getSummaryId(analysis.summary)
  IN IF SummaryChanged(summaryBefore, summaryAfter)
       THEN << [id |-> "summary:" \o summaryId, type |-> "summary", title |-> "Summary",
                before |-> summaryBefore, after |-> summaryAfter,
                summaryId |-> summaryId] >>
       ELSE <<>>

SkipChangeBothEmptyOnly(before, after) == before = "" /\ after = ""

\* if (!before && !after) return; if (before === after) return
SkipChange(before, after) == (before = "" /\ after = "") \/ before = after

SkillItems(resume, analysis) ==
  LET resumeSkills == resume.skills
      analysisSkills == analysis.skills
      resumeKeys == [i \in 1..Len(resumeSkills) |-> SkillKey(resumeSkills[i], i - 1)]
      analysisKeys == [i \in 1..Len(analysisSkills) |-> SkillKey(analysisSkills[i], i - 1)]
      orderedSkillIds == OrderedIds(resumeKeys, analysisKeys)
      item(idx) ==
        LET skillId == orderedSkillIds[idx]
            beforeEntry == MapGet(resumeKeys, resumeSkills, skillId)
            afterEntry == MapGet(analysisKeys, analysisSkills, skillId)
            beforeText_ == skillEntryToText(beforeEntry)
            afterText_ == skillEntryToText(afterEntry)
            label == IF skillEntryLabel(afterEntry) # "" THEN skillEntryLabel(afterEntry)
                     ELSE IF skillEntryLabel(beforeEntry) # "" THEN skillEntryLabel(beforeEntry)
                     ELSE "Skill " \o ToString(idx)
        IN IF SkipChange(beforeText_, afterText_) THEN Undefined
           ELSE [id |-> "skill:" \o skillId, type |-> "skill", title |-> label,
                 skillId |-> skillId, before |-> beforeText_, after |-> afterText_]
  IN Compact([idx \in 1..Len(orderedSkillIds) |-> item(idx)])

\* the point items of the job at 0-based index jobIndex
JobPointItems(resume, analysis, jobIndex) ==
  LET resumeJob == At(resume.experience, jobIndex + 1)
      analysisJob == At(analysis.experience, jobIndex + 1)
      field(job, name) == IF job = Undefined THEN "" ELSE job[name]
      labelParts == JoinTruthy(<<
        IF field(analysisJob, "role") # "" THEN field(analysisJob, "role")
                                          ELSE field(resumeJob, "role"),
        IF field(analysisJob, "company") # "" THEN field(analysisJob, "company")
                                             ELSE field(resumeJob, "company") >>)
      group == IF labelParts # "" THEN labelParts
               ELSE "Experience " \o ToString(jobIndex + 1)
      resumePoints == PointsOf(resumeJob)
      analysisPoints == PointsOf(analysisJob)
      fallbackId(index) == "exp-" \o ToString(jobIndex + 1) \o "-" \o ToString(index)
      resumeKeys == [i \in 1..Len(resumePoints) |-> getPointId(resumePoints[i], fallbackId(i))]
      analysisKeys == [i \in 1..Len(analysisPoints) |->
                         getPointId(analysisPoints[i], fallbackId(i))]
      orderedPointIds == OrderedIds(resumeKeys, analysisKeys)
      item(n) ==
        LET pointId == orderedPointIds[n]
            before == getPointText(MapGet(resumeKeys, resumePoints, pointId))
            after == getPointText(MapGet(analysisKeys, analysisPoints, pointId))
        IN IF SkipChange(before, after) THEN Undefined
           ELSE [id |-> "exp:" \o ToString(jobIndex) \o ":" \o pointId,
                 type |-> "experience", group |-> group, jobIndex |-> jobIndex,
                 pointId |-> pointId, before |-> before, after |-> after]
  IN Compact([n \in 1..Len(orderedPointIds) |-> item(n)])

ExperienceItems(resume, analysis) ==
  LET maxJobs == Max(Len(resume.experience), Len(analysis.experience))
      upTo[n \in 0..maxJobs] ==
        IF n = 0 THEN <<>> ELSE upTo[n - 1] \o JobPointItems(resume, analysis, n - 1)
  IN upTo[maxJobs]

\* the point items of the project at 0-based index projectIndex
ProjectPointItems(resume, analysis, projectIndex) ==
  LET resumeProject == At(resume.projects, projectIndex + 1)
      analysisProject == At(analysis.projects, projectIndex + 1)
      name(project) == IF project = Undefined THEN "" ELSE project.name
      group == IF name(analysisProject) # "" THEN name(analysisProject)
               ELSE IF name(resumeProject) # "" THEN name(resumeProject)
               ELSE "Project " \o ToString(projectIndex + 1)
      resumePoints == PointsOf(resumeProject)
      analysisPoints == PointsOf(analysisProject)
      fallbackId(index) == "proj-" \o ToString(projectIndex + 1) \o "-" \o ToString(index)
      resumeKeys == [i \in 1..Len(resumePoints) |-> getPointId(resumePoints[i], fallbackId(i))]
      analysisKeys == [i \in 1..Len(analysisPoints) |->
                         getPointId(analysisPoints[i], fallbackId(i))]
      orderedPointIds == OrderedIds(resumeKeys, analysisKeys)
      item(n) ==
        LET pointId == orderedPointIds[n]
            before == getPointText(MapGet(resumeKeys, resumePoints, pointId))
            after == getPointText(MapGet(analysisKeys, analysisPoints, pointId))
        IN IF SkipChange(before, after) THEN Undefined
           ELSE [id |-> "proj:" \o ToString(projectIndex) \o ":" \o pointId,
                 type |-> "project", group |-> group, projectIndex |-> projectIndex,
                 pointId |-> pointId, before |-> before, after |-> after]
  IN Compact([n \in 1..Len(orderedPointIds) |-> item(n)])

ProjectItems(resume, analysis) ==
  LET maxProjects == Max(Len(resume.projects), Len(analysis.projects))
      upTo[n \in 0..maxProjects] ==
        IF n = 0 THEN <<>> ELSE upTo[n - 1] \o ProjectPointItems(resume, analysis, n - 1)
  IN upTo[maxProjects]

buildChangeItemsSkillsLast(resume, analysis) ==
  IF resume = Undefined \/ analysis = Undefined THEN <<>>
  ELSE SummaryItems(resume, analysis) \o ExperienceItems(resume, analysis)
         \o ProjectItems(resume, analysis) \o SkillItems(resume, analysis)

BothAbsent(resume, analysis) == resume = Undefined /\ analysis = Undefined

\* !resumeJson || !analysisJson
EitherAbsent(resume, analysis) == resume = Undefined \/ analysis = Undefined

\* what a call leaves when a property read of null throws
RaisedTypeError == <<"TypeError">>

\* buildChangeItems: summary, skills, experience points, project points
buildChangeItems(resume, analysis) ==
  IF EitherAbsent(resume, analysis) THEN <<>>
  ELSE IF resume = Undefined \/ analysis = Undefined THEN RaisedTypeError
  ELSE SummaryItems(resume, analysis) \o SkillItems(resume, analysis)
         \o ExperienceItems(resume, analysis) \o ProjectItems(resume, analysis)

\* buildInitialChangeState: every item id -> false
buildInitialChangeState(items) == [id \in {items[i].id : i \in 1..Len(items)} |-> FALSE]

(***************************************************************************)
(* Selective merge: buildUpdatedResumeData                                 *)
(*                                                                         *)
(* The working copy `updated` is mutated in place by the code. Each of its *)
(* arrays is carried as [arr, fresh]: fresh says that the array was        *)
(* created by the call, so that writing to it cannot reach the arguments;  *)
(* an array that is not fresh is the argument's own array, and what the    *)
(* call writes to it is written to the argument (ResumeAfterMerge).        *)
(***************************************************************************)
AliasArray(list) == [arr |-> list, fresh |-> FALSE]

\* [...list] and list.map(...): a new array
NewArray(list) == [arr |-> list, fresh |-> TRUE]

AliasSkills(skills) == AliasArray(skills)

\* skills: Array.isArray(resumeJson.skills) ? [...resumeJson.skills] : []
CloneSkills(skills) == NewArray(skills)

AliasPoints(points) == AliasArray(points)

\* clonePoints: points.map((point) => ({ ...point }))
clonePoints(points) == NewArray(points)

\* cloneJobs: items.map((item) => ({ ...item, points: clonePoints(item.points) }))
cloneJobs(items) ==
  NewArray([i \in 1..Len(items) |->
              [items[i] EXCEPT !.points = clonePoints(items[i].points)]])

\* the working copy, lines 324-335
CloneResume(resume) ==
  [basics |-> resume.basics,
   summary |-> resume.summary,
   skills |-> CloneSkills(resume.skills),
   experience |-> cloneJobs(resume.experience),
   projects |-> cloneJobs(resume.projects),
   education |-> resume.education,
   certificates |-> resume.certificates]

AcceptedAlways(state, id) == TRUE

\* changeState[item.id], undefined (falsy) when the map has no such key
Accepted(state, id) == id \in DOMAIN state /\ state[id]

\* (entry?.id || '') of every entry of a skill list
SkillIdsOf(skills) == [i \in 1..Len(skills) |-> SkillIdOrEmpty(skills[i])]

PointIdOrEmpty(point) == getPointId(point, "")

\* getPointId(point, '') of every point of a list
PointIdsOf(points) == [i \in 1..Len(points) |-> PointIdOrEmpty(points[i])]

\* array.find((x) => id(x) === wanted): the first match, or undefined
FindFirst(list, ids, wanted) ==
  LET k == FindIndex(ids, wanted)
  IN IF k = 0 THEN Undefined ELSE list[k]

\* array.splice(index, 1), index 1-based
SpliceOut(arr, index) == SubSeq(arr, 1, index - 1) \o SubSeq(arr, index + 1, Len(arr))

\* Object.keys(entry).length, for an entry or undefined
HasKeys(entry) == entry # Undefined /\ Len(entry.props) > 0

ReplaceOrAppendAlwaysAppend(arr, existingIndex, value) == Append(arr, value)

\* if (existingIndex >= 0) arr[existingIndex] = value; else arr.push(value)
ReplaceOrAppend(arr, existingIndex, value) ==
  IF existingIndex > 0 THEN [arr EXCEPT ![existingIndex] = value] ELSE Append(arr, value)

\* the candidate's summary text alone, without its id
ApplySummaryItemTextOnly(work, analysis, item) ==
  [work EXCEPT !.summary = [text |-> analysis.summary.text]]

ApplySummaryItem(work, analysis, item) ==
  [work EXCEPT !.summary = analysis.summary]

ApplySkillItemNoRemoval(work, analysis, item) ==
  LET analysisSkill == FindFirst(analysis.skills, SkillIdsOf(analysis.skills), item.skillId)
      existingIndex == FindIndex(SkillIdsOf(work.skills.arr), item.skillId)
  IN IF HasKeys(analysisSkill)
       THEN [work EXCEPT !.skills.arr = ReplaceOrAppend(@, existingIndex, analysisSkill)]
       ELSE work

\* lines 348-362
ApplySkillItem(work, analysis, item) ==
  LET analysisSkill == FindFirst(analysis.skills, SkillIdsOf(analysis.skills), item.skillId)
      existingIndex == FindIndex(SkillIdsOf(work.skills.arr), item.skillId)
  IN IF HasKeys(analysisSkill)
       THEN [work EXCEPT !.skills.arr = ReplaceOrAppend(@, existingIndex, analysisSkill)]
       ELSE IF existingIndex > 0
              THEN [work EXCEPT !.skills.arr = SpliceOut(@, existingIndex)]
              ELSE work


\* while (list.length <= index) list.push({ ...analysisEntry, points: [] })
PadTo(list, index, analysisEntry) ==
  list \o [n \in 1..Max(0, index + 1 - Len(list)) |->
             [analysisEntry EXCEPT !.points = NewArray(<<>>)]]

\* replace-or-append of the candidate's point in the entry at list[index + 1]
PutPoint(list, index, analysisEntry, pointId) ==
  LET analysisPoint == FindFirst(analysisEntry.points, PointIdsOf(analysisEntry.points), pointId)
      nextPoint == [id |-> getPointId(analysisPoint, pointId),
                    text |-> getPointText(analysisPoint)]
      existingIndex == FindIndex(PointIdsOf(list[index + 1].points.arr), pointId)
  IN IF analysisPoint = Undefined THEN list
     ELSE [list EXCEPT ![index + 1].points.arr = ReplaceOrAppend(@, existingIndex, nextPoint)]

\* lines 364-382
ApplyExperienceItem(work, analysis, item) ==
  LET analysisJob == At(analysis.experience, item.jobIndex + 1)
  IN IF analysisJob = Undefined THEN work
     ELSE [work EXCEPT !.experience.arr =
             PutPoint(PadTo(@, item.jobIndex, analysisJob), item.jobIndex,
                      analysisJob, item.pointId)]

\* lines 384-402
ApplyProjectItem(work, analysis, item) ==
  LET analysisProject == At(analysis.projects, item.projectIndex + 1)
  IN IF analysisProject = Undefined THEN work
     ELSE [work EXCEPT !.projects.arr =
             PutPoint(PadTo(@, item.projectIndex, analysisProject), item.projectIndex,
                      analysisProject, item.pointId)]

\* the body of the changeItems.forEach callback
ApplyItem(work, analysis, state, item) ==
  IF ~Accepted(state, item.id) THEN work
  ELSE IF item.type = "summary" THEN ApplySummaryItem(work, analysis, item)
  ELSE IF item.type = "skill" THEN ApplySkillItem(work, analysis, item)
  ELSE IF item.type = "experience" THEN ApplyExperienceItem(work, analysis, item)
  ELSE IF item.type = "project" THEN ApplyProjectItem(work, analysis, item)
  ELSE work

\* the forEach over changeItems, on the working copy
ApplyItems(work, analysis, items, state) ==
  LET after[n \in 0..Len(items)] ==
        IF n = 0 THEN work ELSE ApplyItem(after[n - 1], analysis, state, items[n])
  IN after[Len(items)]

\* an absent candidate taken for a document without content
MergeWorkAbsentAsEmpty(resume, analysis, items, state) ==
  ApplyItems(CloneResume(resume),
             IF analysis = Undefined
               THEN [summary |-> resume.summary, skills |-> <<>>, experience |-> <<>>,
                     projects |-> <<>>]
               ELSE analysis,
             items, state)

\* the working copy after `if (!analysisJson) return updated` and the forEach
MergeWork(resume, analysis, items, state) ==
  IF analysis = Undefined THEN CloneResume(resume)
  ELSE ApplyItems(CloneResume(resume), analysis, items, state)

\* the arrays of the working copy as plain arrays
PlainJobs(jobs) ==
  [i \in 1..Len(jobs.arr) |-> [jobs.arr[i] EXCEPT !.points = jobs.arr[i].points.arr]]

\* updated.skills.filter((entry) => entry && typeof entry === 'object' && keys.length)
DropEmptySkills(skills) == SelectSeq(skills, HasKeys)

\* buildUpdatedResumeData: the document returned
buildUpdatedResumeData(resume, analysis, items, state) ==
  IF resume = Undefined THEN Undefined
  ELSE LET work == MergeWork(resume, analysis, items, state)
       IN [basics |-> work.basics,
           summary |-> work.summary,
           skills |-> IF analysis = Undefined THEN work.skills.arr
                      ELSE DropEmptySkills(work.skills.arr),
           experience |-> PlainJobs(work.experience),
           projects |-> PlainJobs(work.projects),
           education |-> work.education,
           certificates |-> work.certificates]

\* The skill entries of the returned document as objects: [...resumeJson.skills]
\* is a new array of the original's entry objects
CloneSkillRefs(skills) == [i \in 1..Len(skills) |-> [of |-> "original", index |-> i]]

\* lines 348-362 on the objects: the candidate's entry object is stored as it is
ApplySkillRefs(refs, work, analysis, item) ==
  LET found == FindIndex(SkillIdsOf(analysis.skills), item.skillId)
      analysisSkill == FindFirst(analysis.skills, SkillIdsOf(analysis.skills), item.skillId)
      existingIndex == FindIndex(SkillIdsOf(work.skills.arr), item.skillId)
  IN IF HasKeys(analysisSkill)
       THEN ReplaceOrAppend(refs, existingIndex, [of |-> "candidate", index |-> found])
       ELSE IF existingIndex > 0 THEN SpliceOut(refs, existingIndex) ELSE refs

\* the objects the skill entries of the returned document are; filter keeps objects
SkillRefs(resume, analysis, items, state) ==
  LET after[n \in 0..Len(items)] ==
        IF n = 0 THEN [work |-> CloneResume(resume), refs |-> CloneSkillRefs(resume.skills)]
        ELSE [work |-> ApplyItem(after[n - 1].work, analysis, state, items[n]),
              refs |-> IF Accepted(state, items[n].id) /\ items[n].type = "skill"
                         THEN ApplySkillRefs(after[n - 1].refs, after[n - 1].work, analysis,
                                             items[n])
                         ELSE after[n - 1].refs]
      last == after[Len(items)]
      kept == {i \in 1..Len(last.refs) : HasKeys(last.work.skills.arr[i])}
  IN IF resume = Undefined THEN <<>>
     ELSE IF analysis = Undefined THEN CloneSkillRefs(resume.skills)
     ELSE [n \in 1..Cardinality(kept) |->
             last.refs[CHOOSE i \in kept : Cardinality({k \in kept : k < i}) = n - 1]]

\* The entries of an argument's job array after the call: what the call wrote
\* to arrays that are the argument's own
JobsAfterMerge(jobs, workJobs) ==
  IF ~workJobs.fresh THEN PlainJobs(workJobs)
  ELSE [i \in 1..Len(jobs) |->
          IF workJobs.arr[i].points.fresh THEN jobs[i]
          ELSE [jobs[i] EXCEPT !.points = workJobs.arr[i].points.arr]]

\* resumeJson as the call leaves it
ResumeAfterMerge(resume, analysis, items, state) ==
  IF resume = Undefined THEN resume
  ELSE LET work == MergeWork(resume, analysis, items, state)
       IN [resume EXCEPT
             !.skills = IF work.skills.fresh THEN @ ELSE work.skills.arr,
             !.experience = JobsAfterMerge(@, work.experience),
             !.projects = JobsAfterMerge(@, work.projects)]

(***************************************************************************)
(* The documents the server sends: normalized resumes (normalizeResumeJson *)
(* and normalizeAnalysisJson give the summary, every skill entry and every *)
(* point a non-empty id, and every job and project a point array)          *)
(***************************************************************************)
MaxSkills == 2

MaxJobs == 2

MaxPoints == 2

MaxProjects == 1

MaxTextLen == 4

MaxWords == 4

Basics == [name |-> "Ann", email |-> "ann@example.org"]

Education == << [institution |-> "MIT", degree |-> "BSc"] >>

Certificates == << [name |-> "AWS", issuer |-> "Amazon"] >>

\* skill entries: {id, label, value}, {id, <label>: <value>} and {id}
ExplicitSkill(id, label, value) ==
  [props |-> << <<"id", id>>, <<"label", label>>, <<"value", value>> >>]

DerivedSkill(id, key, value) == [props |-> << <<key, value>>, <<"id", id>> >>]

IdOnlySkill(id) == [props |-> << <<"id", id>> >>]

SkillId(n) == "skill-" \o ToString(n)

OriginalSkillShapes(id) ==
  {ExplicitSkill(id, "Tools", "a"), DerivedSkill(id, "Tools", "a"), IdOnlySkill(id)}

CandidateSkillShapes(id) ==
  {ExplicitSkill(id, "Tools", "a"), ExplicitSkill(id, "Tools", "b"),
   DerivedSkill(id, "Tools", NotAString), IdOnlySkill(id)}

\* the original's skill lists: ids skill-1..skill-n in order
OriginalSkillLists ==
  UNION {{s \in [1..n -> UNION {OriginalSkillShapes(SkillId(k)) : k \in 1..n}] :
            \A k \in 1..n : s[k] \in OriginalSkillShapes(SkillId(k))} : n \in 0..MaxSkills}

\* the candidate's skill lists: the original's ids in any order, omitted, repeated,
\* and one id the original does not have
CandidateSkillLists ==
  SeqUpTo(UNION {CandidateSkillShapes(id) :
                   id \in {SkillId(k) : k \in 1..MaxSkills} \cup {"skill-new"}}, MaxSkills)

Point(id, text) == [id |-> id, text |-> text]

PointId(prefix, entry, n) == prefix \o "-" \o ToString(entry) \o "-" \o ToString(n)

\* the original's point lists of entry number `entry`: ids <prefix>-<entry>-1.. in order
OriginalPointLists(prefix, entry, max) ==
  UNION {{[k \in 1..n |-> Point(PointId(prefix, entry, k), t[k])] : t \in [1..n -> {"", "a"}]} :
           n \in 0..max}

\* the entry whose first point a candidate may have moved into entry number `entry`
MovedFrom(entry) == IF entry > 1 THEN entry - 1 ELSE entry + 1

\* the candidate's point lists: the original's ids in any order, omitted, repeated,
\* one id the original does not have and the id of a point of another entry
CandidatePointLists(prefix, entry, max) ==
  SeqUpTo({Point(PointId(prefix, entry, k), text) : k \in 1..MaxPoints, text \in {"", "a", "b"}}
            \cup {Point(prefix \o "-new", text) : text \in {"", "b"}}
            \cup {Point(PointId(prefix, MovedFrom(entry), 1), "b")}, max)

OriginalJob(points) == [role |-> "Developer", company |-> "Acme", points |-> points]

CandidateJob(n, points) ==
  [role |-> "Engineer", company |-> "Company " \o ToString(n), points |-> points]

OriginalProject(points) == [name |-> "Compiler", points |-> points]

CandidateProject(n, points) == [name |-> "Project " \o ToString(n), points |-> points]

PointLists(side, prefix, entry, max) ==
  IF side = "original" THEN OriginalPointLists(prefix, entry, max)
  ELSE CandidatePointLists(prefix, entry, max)

SumLen(lists) ==
  LET sum[n \in 0..Len(lists)] == IF n = 0 THEN 0 ELSE sum[n - 1] + Len(lists[n])
  IN sum[Len(lists)]

\* the point lists of n entries, with at most `budget` points in all
RECURSIVE PointListSeqs(_, _, _, _)
PointListSeqs(side, prefix, n, budget) ==
  IF n = 0 THEN {<<>>}
  ELSE UNION {{Append(init, last) :
                 last \in PointLists(side, prefix, n, budget - SumLen(init))} :
                init \in PointListSeqs(side, prefix, n - 1, budget)}

\* the experience sections: up to MaxJobs jobs, up to MaxPoints points in all
OriginalExperience ==
  UNION {{[k \in 1..n |-> OriginalJob(p[k])] :
            p \in PointListSeqs("original", "exp", n, MaxPoints)} : n \in 0..MaxJobs}

CandidateExperience ==
  UNION {{[k \in 1..n |-> CandidateJob(k, p[k])] :
            p \in PointListSeqs("candidate", "exp", n, MaxPoints)} : n \in 0..MaxJobs}

OriginalProjects ==
  UNION {{[k \in 1..n |-> OriginalProject(p[k])] :
            p \in PointListSeqs("original", "proj", n, MaxPoints)} : n \in 0..MaxProjects}

CandidateProjects ==
  UNION {{[k \in 1..n |-> CandidateProject(k, p[k])] :
            p \in PointListSeqs("candidate", "proj", n, MaxPoints)} : n \in 0..MaxProjects}

Summary(id, text) == [id |-> id, text |-> text]

Document(summary, skills, experience, projects) ==
  [basics |-> Basics, summary |-> summary, skills |-> skills, experience |-> experience,
   projects |-> projects, education |-> Education, certificates |-> Certificates]

\* a section the optimizer left alone, and the same section with one edit
PlainSkills == << ExplicitSkill(SkillId(1), "Tools", "a") >>

EditedSkills ==
  << ExplicitSkill("skill-new", "Cloud", "a"), ExplicitSkill(SkillId(1), "Tools", "b") >>

PlainExperience == << OriginalJob(<<Point(PointId("exp", 1, 1), "a")>>) >>

EditedExperience == << OriginalJob(<<Point(PointId("exp", 1, 1), "b")>>) >>

PlainProjects == << OriginalProject(<<Point(PointId("proj", 1, 1), "a")>>) >>

EditedProjects == << OriginalProject(<<Point(PointId("proj", 1, 1), "b")>>) >>

\* The responses of /api/analyze: pairs <<resumeJson, analysisJson>> in which one
\* section varies over all its shapes, or every section has at most one edit
SkillResponses ==
  {<<Document(Summary("summary-1", "a"), r, PlainExperience, PlainProjects),
     Document(Summary("summary-1", "a"), c, PlainExperience, PlainProjects)>> :
     r \in OriginalSkillLists, c \in CandidateSkillLists}

ExperienceResponses ==
  {<<Document(Summary("summary-1", "a"), PlainSkills, r, PlainProjects),
     Document(Summary("summary-1", "a"), PlainSkills, c, PlainProjects)>> :
     r \in OriginalExperience, c \in CandidateExperience}

ProjectResponses ==
  {<<Document(Summary("summary-1", "a"), PlainSkills, PlainExperience, r),
     Document(Summary("summary-1", "a"), PlainSkills, PlainExperience, c)>> :
     r \in OriginalProjects, c \in CandidateProjects}

MixedResponses ==
  {<<Document(Summary("summary-1", rt), PlainSkills, PlainExperience, PlainProjects),
     Document(Summary(cid, ct), cs, ce, cp)>> :
     rt \in {"", "a"}, cid \in {"summary-1", "summary-2"}, ct \in {"", "a", "b"},
     cs \in {PlainSkills, EditedSkills}, ce \in {PlainExperience, EditedExperience},
     cp \in {PlainProjects, EditedProjects}}

Responses == SkillResponses \cup ExperienceResponses \cup ProjectResponses \cup MixedResponses

\* the texts diffWords is given: characters and spaces
Chars == {"e", "E", " "}

\* one-letter words joined by single spaces
SpacedWords(letters) ==
  [i \in 1..(2 * Len(letters) - 1) |-> IF i % 2 = 1 THEN letters[(i + 1) \div 2] ELSE " "]

\* every text of up to MaxTextLen characters, and the texts of up to MaxWords
\* one-letter words
Texts ==
  SeqUpTo(Chars, MaxTextLen)
    \cup {SpacedWords(w) : w \in SeqUpTo(Chars \ Whitespace, MaxWords) \ {<<>>}}

(***************************************************************************)
(* The server's normalizers (normalizeResumeJson, normalizeAnalysisJson),  *)
(* applied to the parsed output of the language model. A raw JSON value is *)
(* a record tagged with its kind:                                          *)
(*   [t |-> "undefined"], [t |-> "null"], [t |-> "string", s |-> ...],     *)
(*   [t |-> "number", n |-> ...], [t |-> "boolean", b |-> ...],            *)
(*   [t |-> "array", items |-> <<...>>] and                                *)
(*   [t |-> "object", props |-> << <<key, value>>, ... >>], the keys in    *)
(*   insertion order.                                                      *)
(* [t |-> "TypeError"] stands for the exception a property read of null or *)
(* undefined throws; a function whose evaluation meets it throws it.       *)
(***************************************************************************)
JUndefined == [t |-> "undefined"]

JNull == [t |-> "null"]

JString(s) == [t |-> "string", s |-> s]

JNumber(n) == [t |-> "number", n |-> n]

JBoolean(b) == [t |-> "boolean", b |-> b]

JArray(items) == [t |-> "array", items |-> items]

JObject(props) == [t |-> "object", props |-> props]

JTypeError == [t |-> "TypeError"]

\* typeof v
TypeOf(v) == IF v.t \in {"null", "array", "object"} THEN "object" ELSE v.t

\* !!v
JTruthy(v) ==
  CASE v.t \in {"undefined", "null"} -> FALSE
    [] v.t = "string" -> v.s # ""
    [] v.t = "number" -> v.n # 0
    [] v.t = "boolean" -> v.b
    [] OTHER -> TRUE

IsObject(v) == JTruthy(v) /\ TypeOf(v) = "object"

\* Array.isArray(v)
IsArray(v) == v.t = "array"

\* the characters of the strings the raw documents use
StringChars(s) ==
  CASE s = "" -> <<>>
    [] s = " " -> <<" ">>
    [] s = "a" -> <<"a">>
    [] s = "b" -> <<"b">>
    [] s = " a " -> <<" ", "a", " ">>
    [] OTHER -> <<s>>

JoinChars(chars) ==
  LET join[n \in 0..Len(chars)] == IF n = 0 THEN "" ELSE join[n - 1] \o chars[n]
  IN join[Len(chars)]

\* String.prototype.trim
Trim(s) ==
  LET chars == StringChars(s)
      inked == {i \in 1..Len(chars) : chars[i] # " "}
  IN IF inked = {} THEN ""
     ELSE JoinChars(SubSeq(chars, CHOOSE i \in inked : \A k \in inked : i <= k,
                           CHOOSE i \in inked : \A k \in inked : k <= i))

\* Object.keys(v) of an object, an array or a string: what a spread copies
OwnProps(v) ==
  CASE v.t = "object" -> v.props
    [] v.t = "array" -> [i \in 1..Len(v.items) |-> <<ToString(i - 1), v.items[i]>>]
    [] v.t = "string" ->
         [i \in 1..Len(StringChars(v.s)) |-> <<ToString(i - 1), JString(StringChars(v.s)[i])>>]
    [] OTHER -> <<>>

HasProp(props, key) == \E i \in 1..Len(props) : props[i][1] = key

PropOf(props, key) ==
  IF HasProp(props, key) THEN props[CHOOSE i \in 1..Len(props) : props[i][1] = key][2]
  ELSE JUndefined

\* v.key: throws when v is null or undefined
Prop(v, key) ==
  IF v.t \in {"undefined", "null", "TypeError"} THEN JTypeError ELSE PropOf(OwnProps(v), key)

\* v?.key
OptProp(v, key) == IF v.t \in {"undefined", "null"} THEN JUndefined ELSE Prop(v, key)

\* target[key] = value on the property list of an object
SetProp(props, key, value) ==
  IF HasProp(props, key)
    THEN [i \in 1..Len(props) |-> IF props[i][1] = key THEN <<key, value>> ELSE props[i]]
    ELSE Append(props, <<key, value>>)

\* { ...target, ...source }
Spread(props, source) ==
  LET more == OwnProps(source)
      put[n \in 0..Len(more)] ==
        IF n = 0 THEN props ELSE SetProp(put[n - 1], more[n][1], more[n][2])
  IN put[Len(more)]

\* list[i] with i 0-based, undefined beyond the end
ItemAt(list, i) == IF i + 1 <= Len(list) THEN list[i + 1] ELSE JUndefined

\* a || b
OrElse(a, b) == IF JTruthy(a) THEN a ELSE b

\* v.id.trim() when v is an object whose id is a string, undefined otherwise
TrimmedId(v) ==
  IF IsObject(v) /\ TypeOf(Prop(v, "id")) = "string" THEN JString(Trim(Prop(v, "id").s))
  ELSE JUndefined

\* the elements of an array argument; [] for anything that is not an array
ArrayOrEmpty(v) == IF IsArray(v) THEN v.items ELSE <<>>

Throws(v) == v = JTypeError

\* an array built by a loop throws when the evaluation of an element throws
ArrayOf(items) ==
  IF \E i \in 1..Len(items) : Throws(items[i]) THEN JTypeError ELSE JArray(items)

\* an element the loop skipped (continue) or did not push leaves no trace
Pushed(v) == v.t \notin {"undefined", "null"}

\* String(item)
StringOf(v) ==
  CASE v.t = "string" -> v.s
    [] v.t = "number" -> ToString(v.n)
    [] v.t = "boolean" -> IF v.b THEN "true" ELSE "false"
    [] v.t \in {"null", "undefined"} -> v.t
    [] v.t = "array" /\ v.items = <<>> -> ""
    [] OTHER -> "[object Object]"

NonEmptyString(str) == str # ""

\* normalizeList: [...new Set(list.map((item) => String(item).trim()).filter(Boolean))]
normalizeList(list) ==
  LET items == ArrayOrEmpty(list)
      trimmed == [i \in 1..Len(items) |-> Trim(StringOf(items[i]))]
      kept == MapKeys(SelectSeq(trimmed, NonEmptyString))
  IN JArray([i \in 1..Len(kept) |-> JString(kept[i])])

experienceTemplate ==
  << <<"company", JString("")>>, <<"role", JString("")>>, <<"location", JString("")>>,
     <<"startDate", JString("")>>, <<"endDate", JString("")>>, <<"isCurrent", JString("")>>,
     <<"points", JArray(<<>>)>> >>

projectTemplate ==
  << <<"name", JString("")>>, <<"technologies", JString("")>>, <<"link", JString("")>>,
     <<"points", JArray(<<>>)>> >>

educationTemplate ==
  << <<"institution", JString("")>>, <<"degree", JString("")>>, <<"field", JString("")>>,
     <<"startDate", JString("")>>, <<"endDate", JString("")>> >>

certificateTemplate ==
  << <<"name", JString("")>>, <<"issuer", JString("")>>, <<"year", JString("")>> >>

emptyBasics ==
  << <<"name", JString("")>>, <<"email", JString("")>>, <<"phone", JString("")>>,
     <<"location", JString("")>>, <<"linkedin", JString("")>>, <<"github", JString("")>>,
     <<"portfolio", JString("")>> >>

IdText(id, text) == JObject(<< <<"id", id>>, <<"text", text>> >>)

emptyResumeJson ==
  << <<"basics", JObject(emptyBasics)>>,
     <<"summary", IdText(JString("summary-1"), JString(""))>>,
     <<"skills", JArray(<<>>)>>, <<"experience", JArray(<<>>)>>,
     <<"projects", JArray(<<>>)>>, <<"education", JArray(<<>>)>>,
     <<"certificates", JArray(<<>>)>> >>

emptyAnalysisJson ==
  << <<"Required Keywords", JArray(<<>>)>>, <<"Matching Keywords", JArray(<<>>)>>,
     <<"Missing Keywords", JArray(<<>>)>>, <<"Analysis", JArray(<<>>)>>,
     <<"summary", IdText(JString("summary-1"), JString(""))>>,
     <<"skills", JArray(<<>>)>>, <<"experience", JArray(<<>>)>>,
     <<"projects", JArray(<<>>)>>, <<"education", JArray(<<>>)>>,
     <<"certificates", JArray(<<>>)>> >>

\* normalizeSummaryValue(summary, fallbackId)
normalizeSummaryValue(summary, fallbackId) ==
  IF Throws(fallbackId) THEN JTypeError
  ELSE IF IsObject(summary)
    THEN IdText(IF JTruthy(TrimmedId(summary)) THEN TrimmedId(summary) ELSE fallbackId,
                IF TypeOf(Prop(summary, "text")) = "string" THEN Prop(summary, "text")
                ELSE JString(""))
  ELSE IF TypeOf(summary) = "string" THEN IdText(fallbackId, summary)
  ELSE IdText(fallbackId, JString(""))

\* `skill-${index + 1}`, index 0-based
SkillFallbackId(index) == JString("skill-" \o ToString(index + 1))

\* normalizeSkillEntry(entry, index, fallbackId)
normalizeSkillEntry(entry, index, fallbackId) ==
  IF ~JTruthy(entry) \/ TypeOf(entry) # "object" THEN JNull
  ELSE LET normalized == Spread(<<>>, entry)
           id == PropOf(normalized, "id")
           idValue == IF TypeOf(id) = "string" /\ Trim(id.s) # "" THEN JString(Trim(id.s))
                      ELSE OrElse(fallbackId, SkillFallbackId(index))
       IN JObject(SetProp(normalized, "id", idValue))

\* normalizeSkillsList(skills, resumeSkills)
normalizeSkillsList(skills, resumeSkills) ==
  LET list == ArrayOrEmpty(skills)
      fallback == ArrayOrEmpty(resumeSkills)
      maxLen == Max(Len(list), Len(fallback))
      step(i) ==
        LET entry == ItemAt(list, i)
            fallbackEntry == ItemAt(fallback, i)
            fallbackId == IF IsObject(fallbackEntry)
                               /\ TypeOf(Prop(fallbackEntry, "id")) = "string"
                            THEN Prop(fallbackEntry, "id")
                            ELSE SkillFallbackId(i)
        IN IF ~JTruthy(entry) /\ ~JTruthy(fallbackEntry) THEN JUndefined
           ELSE normalizeSkillEntry(OrElse(entry, fallbackEntry), i, fallbackId)
  IN ArrayOf(SelectSeq([n \in 1..maxLen |-> step(n - 1)], Pushed))

\* the server's getPointText(point)
serverGetPointText(point) ==
  IF TypeOf(point) = "string" THEN point
  ELSE IF IsObject(point) /\ TypeOf(Prop(point, "text")) = "string" THEN Prop(point, "text")
  ELSE IF IsObject(point) /\ TypeOf(Prop(point, "value")) = "string" THEN Prop(point, "value")
  ELSE JString("")

PointFallbackIdZeroBased(prefix, i) == JString(prefix \o "-" \o ToString(i))

\* `${prefix}-${i + 1}`, i 0-based
PointFallbackId(prefix, i) == JString(prefix \o "-" \o ToString(i + 1))

\* normalizePointsList(points, resumePoints, prefix)
normalizePointsList(points, resumePoints, prefix) ==
  LET list == ArrayOrEmpty(points)
      fallback == ArrayOrEmpty(resumePoints)
      maxLen == Max(Len(list), Len(fallback))
      step(i) ==
        LET point == ItemAt(list, i)
            fallbackPoint == ItemAt(fallback, i)
            idValue == IF JTruthy(TrimmedId(point)) THEN TrimmedId(point)
                       ELSE IF JTruthy(TrimmedId(fallbackPoint)) THEN TrimmedId(fallbackPoint)
                       ELSE PointFallbackId(prefix, i)
        IN IF ~JTruthy(point) /\ ~JTruthy(fallbackPoint) THEN JUndefined
           ELSE IdText(idValue, serverGetPointText(OrElse(point, fallbackPoint)))
  IN IF Throws(points) \/ Throws(resumePoints) THEN JTypeError
     ELSE ArrayOf(SelectSeq([n \in 1..maxLen |-> step(n - 1)], Pushed))

\* item && typeof item === 'object' ? item : {}
ObjectOrEmpty(item) == IF IsObject(item) THEN item ELSE JObject(<<>>)

\* { ...template, ...(fallbackItem is an object ? fallbackItem : {}), ...(item ...) }
MergedEntry(template, fallbackItem, item) ==
  Spread(Spread(template, ObjectOrEmpty(fallbackItem)), ObjectOrEmpty(item))

\* normalizeArrayObjects(list, template, fallbackList)
normalizeArrayObjects(list, template, fallbackList) ==
  LET items == ArrayOrEmpty(list)
      fallback == ArrayOrEmpty(fallbackList)
      maxLen == Max(Len(items), Len(fallback))
      step(i) ==
        LET item == ItemAt(items, i)
            fallbackItem == ItemAt(fallback, i)
        IN IF ~JTruthy(item) /\ ~JTruthy(fallbackItem) THEN JUndefined
           ELSE JObject(MergedEntry(template, fallbackItem, item))
  IN ArrayOf(SelectSeq([n \in 1..maxLen |-> step(n - 1)], Pushed))

\* item.points read without the optional chaining
PointsOfEntryUnguarded(item) == Prop(item, "points")

\* item?.points
PointsOfEntry(item) == OptProp(item, "points")

\* the loop of normalizeExperienceList and normalizeProjectList
NormalizeEntryList(list, resumeList, template, prefix) ==
  LET items == ArrayOrEmpty(list)
      fallback == ArrayOrEmpty(resumeList)
      maxLen == Max(Len(items), Len(fallback))
      step(i) ==
        LET item == ItemAt(items, i)
            fallbackItem == ItemAt(fallback, i)
            points == normalizePointsList(PointsOfEntry(item), PointsOfEntry(fallbackItem),
                                          prefix \o "-" \o ToString(i + 1))
        IN IF ~JTruthy(item) /\ ~JTruthy(fallbackItem) THEN JUndefined
           ELSE IF Throws(points) THEN JTypeError
           ELSE JObject(SetProp(MergedEntry(template, fallbackItem, item), "points", points))
  IN ArrayOf(SelectSeq([n \in 1..maxLen |-> step(n - 1)], Pushed))

normalizeExperienceList(list, resumeList) ==
  NormalizeEntryList(list, resumeList, experienceTemplate, "exp")

normalizeProjectList(list, resumeList) ==
  NormalizeEntryList(list, resumeList, projectTemplate, "proj")

\* a document throws when the evaluation of one of its fields throws
DocumentOf(props) ==
  IF \E i \in 1..Len(props) : Throws(props[i][2]) THEN JTypeError ELSE JObject(props)

RECURSIVE SetProps(_, _)
SetProps(props, pairs) ==
  IF pairs = <<>> THEN props
  ELSE SetProps(SetProp(props, pairs[1][1], pairs[1][2]), Tail(pairs))

\* normalizeResumeJson(input)
normalizeResumeJson(input) ==
  IF ~IsObject(input) THEN JObject(emptyResumeJson)
  ELSE DocumentOf(SetProps(emptyResumeJson,
         << <<"basics", JObject(Spread(emptyBasics,
                                       OrElse(Prop(input, "basics"), JObject(<<>>))))>>,
            <<"summary", normalizeSummaryValue(Prop(input, "summary"), JString("summary-1"))>>,
            <<"skills", normalizeSkillsList(Prop(input, "skills"), JUndefined)>>,
            <<"experience", normalizeExperienceList(Prop(input, "experience"), JUndefined)>>,
            <<"projects", normalizeProjectList(Prop(input, "projects"), JUndefined)>>,
            <<"education",
              normalizeArrayObjects(Prop(input, "education"), educationTemplate, JUndefined)>>,
            <<"certificates",
              normalizeArrayObjects(Prop(input, "certificates"), certificateTemplate,
                                    JUndefined)>> >>))

\* value.length ? value : fallback, for an array value
NonEmptyOr(value, fallback) ==
  IF Throws(value) THEN JTypeError
  ELSE IF Len(value.items) > 0 THEN value ELSE fallback

\* normalizeAnalysisJson(input, resumeJson)
normalizeAnalysisJson(input, resume) ==
  LET base ==
        IF ~IsObject(input) THEN emptyAnalysisJson
        ELSE SetProps(emptyAnalysisJson,
          << <<"Required Keywords", normalizeList(Prop(input, "Required Keywords"))>>,
             <<"Matching Keywords", normalizeList(Prop(input, "Matching Keywords"))>>,
             <<"Missing Keywords", normalizeList(Prop(input, "Missing Keywords"))>>,
             <<"Analysis", normalizeList(Prop(input, "Analysis"))>>,
             <<"summary",
               normalizeSummaryValue(Prop(input, "summary"),
                                     OrElse(OptProp(Prop(resume, "summary"), "id"),
                                            JString("summary-1")))>>,
             <<"skills", normalizeSkillsList(Prop(input, "skills"), Prop(resume, "skills"))>>,
             <<"experience", normalizeExperienceList(Prop(input, "experience"),
                                                     Prop(resume, "experience"))>>,
             <<"projects", normalizeProjectList(Prop(input, "projects"),
                                                Prop(resume, "projects"))>>,
             <<"education", normalizeArrayObjects(Prop(input, "education"), educationTemplate,
                                                  Prop(resume, "education"))>>,
             <<"certificates",
               normalizeArrayObjects(Prop(input, "certificates"), certificateTemplate,
                                     Prop(resume, "certificates"))>> >>)
      summary == PropOf(base, "summary")
  IN IF Throws(resume) \/ \E i \in 1..Len(base) : Throws(base[i][2]) THEN JTypeError
     ELSE DocumentOf(SetProps(base,
       << <<"summary", IF JTruthy(OptProp(summary, "text")) THEN summary
                       ELSE Prop(resume, "summary")>>,
          <<"skills", NonEmptyOr(PropOf(base, "skills"), Prop(resume, "skills"))>>,
          <<"experience",
            NonEmptyOr(PropOf(base, "experience"), Prop(resume, "experience"))>>,
          <<"projects", NonEmptyOr(PropOf(base, "projects"), Prop(resume, "projects"))>>,
          <<"education", NonEmptyOr(PropOf(base, "education"), Prop(resume, "education"))>>,
          <<"certificates",
            NonEmptyOr(PropOf(base, "certificates"), Prop(resume, "certificates"))>> >>))

(***************************************************************************)
(* The review screen: the App component's state and handlers               *)
(***************************************************************************)
EmptyState == [id \in {} |-> FALSE]

InitMerge ==
  /\ resumeJson = Undefined
  /\ analysisJson = Undefined
  /\ changeItems = <<>>
  /\ changeState = EmptyState
  /\ updatedResumeData = Undefined
  /\ updatedSkillRefs = <<>>
  /\ currentStep = 2
  /\ resume0 = Undefined
  /\ analysis0 = Undefined
  /\ repeated = FALSE

InitDiff ==
  /\ beforeText = <<>>
  /\ afterText = <<>>
  /\ operations = <<>>
  /\ diffPc = "idle"

InitAlign ==
  /\ rawList = JUndefined
  /\ keptList = JUndefined
  /\ normalizedList = JUndefined
  /\ alignPc = "idle"

InitNorm ==
  /\ rawResume = JUndefined
  /\ rawAnalysis = JUndefined
  /\ serverResumeJson = JUndefined
  /\ serverAnalysisJson = JUndefined
  /\ normPc = "idle"
  /\ InitAlign

InitEngine ==
  /\ builtItems = <<>>
  /\ enginePc = "idle"

\* exportDocxAbortRef.current === null
NoController == 0

InitExport ==
  /\ exportDocxUrl = Undefined
  /\ exportingDocx = FALSE
  /\ exportDocxAbortRef = NoController
  /\ exportRequests = {}
  /\ exportCount = 0
  /\ downloaded = Undefined

renderVars == <<renderJobs, renderedLines, renderPc>>

InitRender ==
  /\ renderJobs = <<>>
  /\ renderedLines = <<>>
  /\ renderPc = "idle"

InitAnalysis ==
  /\ isAnalyzing = FALSE
  /\ abortRef = NoController
  /\ analysisRequests = {}
  /\ analysisCount = 0
  /\ analysisFrom = NoController
  /\ cancelledAnalyses = {}
  /\ error = ""
  /\ lastEvent = "mount"

Init ==
  InitMerge /\ InitDiff /\ InitNorm /\ InitEngine /\ InitExport /\ InitAnalysis /\ InitRender

\* the effect on [changeState, resumeJson, analysisJson], lines 559-570: the request
\* of the stored controller is aborted (its catch returns on AbortError), the
\* controller, the flag and the URL are cleared
ExportInvalidation ==
  /\ exportRequests' = {r \in exportRequests : r.controller # exportDocxAbortRef}
  /\ exportDocxAbortRef' = NoController
  /\ exportingDocx' = FALSE
  /\ exportDocxUrl' = Undefined
  /\ UNCHANGED <<exportCount, downloaded>>

\* useMemo(() => buildUpdatedResumeData(...), [resumeJson, analysisJson, changeItems,
\* changeState]): the merged document is recomputed when a dependency is set, and
\* the arguments are left as the call leaves them; the effect on the same
\* dependencies runs after the render
Recompute(resume, analysis, items, state) ==
  /\ ExportInvalidation
  /\ updatedResumeData' = buildUpdatedResumeData(resume, analysis, items, state)
  /\ updatedSkillRefs' = SkillRefs(resume, analysis, items, state)
  /\ resumeJson' = ResumeAfterMerge(resume, analysis, items, state)
  /\ analysisJson' = analysis
  /\ changeItems' = items
  /\ changeState' = state
  /\ repeated' = (currentStep = 3 /\ items = changeItems /\ state = changeState)

\* startAnalysis, lines 697-708: the response of /api/analyze arrives
ResponseApplied(responses) ==
  /\ currentStep = 2
  /\ \E response \in responses :
       LET items == buildChangeItems(response[1], response[2])
       IN /\ Recompute(response[1], response[2], items, buildInitialChangeState(items))
          /\ resume0' = response[1]
          /\ analysis0' = response[2]
  /\ currentStep' = 3

\* the same from the state in which the request is in flight
AnalysisArrives(responses) ==
  /\ ResponseApplied(responses)
  /\ UNCHANGED <<diffVars, normVars, engineVars, analysisVars,
                 renderVars>>

AnalysisResponse == AnalysisArrives(Responses)

ToggledOn(state, id) ==
  [k \in DOMAIN state \cup {id} |-> IF k = id THEN TRUE ELSE state[k]]

\* { ...prev, [id]: !prev[id] }
Toggled(state, id) ==
  [k \in DOMAIN state \cup {id} |-> IF k = id THEN ~Accepted(state, id) ELSE state[k]]

\* the decision map setAllChanges(value) builds: every item's id with the value
AllSetTo(items, value) ==
  [id \in {items[n].id : n \in 1..Len(items)} |-> value]

\* toggleChange(id), for the id of a listed change item
ToggleChange ==
  /\ currentStep = 3
  /\ \E n \in 1..Len(changeItems) :
       LET id == changeItems[n].id
       IN Recompute(resumeJson, analysisJson, changeItems, Toggled(changeState, id))
  /\ UNCHANGED <<currentStep, resume0, analysis0, diffVars, normVars, engineVars, analysisVars,
                 renderVars>>

\* setAllChanges(value): Apply all, Undo all
SetAllChanges ==
  /\ currentStep = 3
  /\ \E value \in BOOLEAN :
       Recompute(resumeJson, analysisJson, changeItems, AllSetTo(changeItems, value))
  /\ UNCHANGED <<currentStep, resume0, analysis0, diffVars, normVars, engineVars, analysisVars,
                 renderVars>>

Next == AnalysisResponse \/ ToggleChange \/ SetAllChanges

Spec == Init /\ [][Next]_vars

(***************************************************************************)
(* The diff engine on its own: diffWords applied to two texts              *)
(***************************************************************************)
InitDiffWords ==
  /\ InitMerge
  /\ InitExport
  /\ InitAnalysis
  /\ InitRender
  /\ InitNorm
  /\ InitEngine
  /\ beforeText \in Texts
  /\ afterText \in Texts
  /\ operations = <<>>
  /\ diffPc = "input"

CallDiffWords ==
  /\ diffPc = "input"
  /\ operations' = DiffOperations(beforeText, afterText)
  /\ diffPc' = "done"
  /\ UNCHANGED <<beforeText, afterText, mergeVars, normVars, engineVars, exportVars,
                 analysisVars,
                 renderVars>>

NextDiff == CallDiffWords

SpecDiff == InitDiffWords /\ [][NextDiff]_vars

(***************************************************************************)
(* The normalizers on their own: /api/analyze normalizes the parsed resume *)
(* and then the optimizers' output against it                              *)
(***************************************************************************)
MaxRawEntries == 2

Present(pair) == pair[2] # JUndefined

\* an object literal without the properties whose value is undefined
WithProps(pairs) == JObject(SelectSeq(pairs, Present))

RawIds == {JUndefined, JString(""), JString(" a "), JNumber(7)}

RawTexts == {JUndefined, JString("a"), JNumber(7)}

RawScalars == {JUndefined, JNull, JString("Acme"), JNumber(7), JBoolean(TRUE)}

RawPoints ==
  {JNull, JString("a"), JString(""), JObject(<< <<"value", JString("a")>> >>)}
    \cup {WithProps(<< <<"id", id>>, <<"text", text>> >>) : id \in RawIds, text \in RawTexts}

RawSkills ==
  {JNull, JString("a"), JArray(<<JString("a")>>), JObject(<<>>)}
    \cup {WithProps(<< <<"label", JString("Tools")>>, <<"id", id>> >>) : id \in RawIds}

RawSummaries ==
  {JUndefined, JNull, JString("a"), JNumber(7), JArray(<<>>)}
    \cup {WithProps(<< <<"id", id>>, <<"text", text>> >>) : id \in RawIds, text \in RawTexts}

\* what may stand where an array is expected
NotArrays == {JUndefined, JNull, JString("a"), JObject(<<>>)}

RawLists(S) == {JArray(items) : items \in SeqUpTo(S, MaxRawEntries)} \cup NotArrays

RawJob(company, points) == WithProps(<< <<"company", company>>, <<"points", points>> >>)

RawProject(name, points) == WithProps(<< <<"name", name>>, <<"points", points>> >>)

\* entries of an experience list of several jobs
RawJobs ==
  {JNull, JNumber(7), RawJob(JNumber(7), JUndefined),
   RawJob(JUndefined, JArray(<<JString("a")>>))}

RawProjects ==
  {JNull, RawProject(JUndefined, JString("a")),
   RawProject(JNumber(7), JArray(<<JNull, WithProps(<< <<"text", JString("a")>> >>)>>))}

RawBasics ==
  {JUndefined, JNull, JString("a"), JArray(<<JNumber(7)>>)}
    \cup {WithProps(<< <<"name", name>> >>) : name \in RawScalars}

RawEducation ==
  RawLists({JNull, JString("a")}
             \cup {WithProps(<< <<"degree", degree>> >>) : degree \in RawScalars})

\* one section of a raw document varies over its shapes, the others are absent
RawSections ==
  {<< <<"summary", v>> >> : v \in RawSummaries}
    \cup {<< <<"skills", v>> >> : v \in RawLists(RawSkills)}
    \cup {<< <<"experience", JArray(<<RawJob(JUndefined, points)>>)>> >> :
            points \in RawLists(RawPoints)}
    \cup {<< <<"experience", JArray(<<RawJob(company, JUndefined)>>)>> >> :
            company \in RawScalars}
    \cup {<< <<"experience", v>> >> : v \in RawLists(RawJobs)}
    \cup {<< <<"projects", v>> >> : v \in RawLists(RawProjects)}
    \cup {<< <<"basics", v>> >> : v \in RawBasics}
    \cup {<< <<"education", v>>, <<"certificates", v>> >> : v \in RawEducation}

RawResumes ==
  {JUndefined, JNull, JString("a"), JNumber(7), JArray(<<>>), JArray(<<JString("a")>>)}
    \cup {WithProps(props) : props \in RawSections}

RawKeywords ==
  {JUndefined, JString("a"), JArray(<<JString(" a "), JString("a"), JNull, JString("")>>)}

ArraysOf(S) == {JArray(items) : items \in SeqUpTo(S, MaxRawEntries)}

\* the optimizers' outputs: sections with and without ids, shorter and longer than
\* the resume's
RawAnalysisSections ==
  {<< <<"summary", v>> >> :
     v \in {JNull, JString("b"), WithProps(<< <<"text", JString("b")>> >>),
            WithProps(<< <<"id", JString("b")>>, <<"text", JString("")>> >>)}}
    \cup {<< <<"skills", v>> >> :
            v \in ArraysOf({JNull, WithProps(<< <<"label", JString("Cloud")>> >>),
                            WithProps(<< <<"id", JString("b")>> >>)})}
    \cup {<< <<"experience", v>> >> :
            v \in ArraysOf({JNull, RawJob(JNumber(7), JUndefined),
                            RawJob(JUndefined,
                                   JArray(<<WithProps(<< <<"text", JString("b")>> >>)>>))})}
    \cup {<< <<"projects", v>> >> :
            v \in ArraysOf({JNull,
                            RawProject(JUndefined,
                                       JArray(<<JNull,
                                                WithProps(<< <<"text", JString("b")>> >>)>>))})}
    \cup {<< <<"Required Keywords", v>>, <<"education", e>> >> :
            v \in RawKeywords, e \in {JUndefined, JArray(<<JString("a")>>)}}

RawAnalyses ==
  {JUndefined, JNull, JString("a"), JArray(<<>>)}
    \cup {WithProps(props) : props \in RawAnalysisSections}

InitNormalize ==
  /\ InitMerge
  /\ InitExport
  /\ InitAnalysis
  /\ InitRender
  /\ InitDiff
  /\ InitEngine
  /\ rawResume \in RawResumes
  /\ rawAnalysis = JUndefined
  /\ serverResumeJson = JUndefined
  /\ serverAnalysisJson = JUndefined
  /\ normPc = "raw"
  /\ InitAlign

\* const resumeJson = normalizeResumeJson(parsedResume)
NormalizeResume ==
  /\ normPc = "raw"
  /\ serverResumeJson' = normalizeResumeJson(rawResume)
  /\ normPc' = "resume"
  /\ UNCHANGED <<rawResume, rawAnalysis, serverAnalysisJson, alignVars, mergeVars, diffVars,
                 engineVars, exportVars,
                 analysisVars,
                 renderVars>>

\* const analysisJson = normalizeAnalysisJson(combined, resumeJson)
NormalizeAnalysis ==
  /\ normPc = "resume"
  /\ ~Throws(serverResumeJson)
  /\ \E combined \in RawAnalyses :
       /\ rawAnalysis' = combined
       /\ serverAnalysisJson' = normalizeAnalysisJson(combined, serverResumeJson)
  /\ normPc' = "analysis"
  /\ UNCHANGED <<rawResume, serverResumeJson, alignVars, mergeVars, diffVars, engineVars,
                 exportVars, analysisVars,
                 renderVars>>

NextNormalize == NormalizeResume \/ NormalizeAnalysis

SpecNormalize == InitNormalize /\ [][NextNormalize]_vars

(***************************************************************************)
(* The list normalizers on their own: normalizeSkillsList and              *)
(* normalizePointsList called with a raw list and the resume's normalized  *)
(* list, or no list, as the fallback                                       *)
(***************************************************************************)
AlignPrefix == "exp-1"

KeptId(k) == JString("kept-" \o ToString(k))

\* the resume's normalized lists: every entry carries an id
FallbackSkillLists ==
  {JUndefined}
    \cup {JArray([k \in 1..n |-> JObject(<< <<"label", JString("Kept")>>, <<"id", KeptId(k)>> >>)]) :
            n \in 0..MaxRawEntries}

FallbackPointLists ==
  {JUndefined} \cup {JArray([k \in 1..n |-> IdText(KeptId(k), JString("kept"))]) :
                       n \in 0..MaxRawEntries}

\* the raw entries of the calls: those of the raw documents, and entries whose id is
\* the id of the fallback's second entry or the id generated for the second index
AlignSkills ==
  RawSkills \cup {WithProps(<< <<"label", JString("Tools")>>, <<"id", id>> >>) :
                    id \in {KeptId(2), SkillFallbackId(1)}}

AlignPoints ==
  RawPoints \cup {IdText(id, JString("a")) : id \in {KeptId(2), PointFallbackId(AlignPrefix, 1)}}

InitAlignCalls ==
  /\ InitMerge
  /\ InitExport
  /\ InitAnalysis
  /\ InitRender
  /\ InitDiff
  /\ InitEngine
  /\ rawResume = JUndefined
  /\ rawAnalysis = JUndefined
  /\ serverResumeJson = JUndefined
  /\ serverAnalysisJson = JUndefined
  /\ normPc = "idle"
  /\ \/ /\ alignPc = "skills"
        /\ rawList \in RawLists(AlignSkills)
        /\ keptList \in FallbackSkillLists
     \/ /\ alignPc = "points"
        /\ rawList \in RawLists(AlignPoints)
        /\ keptList \in FallbackPointLists
  /\ normalizedList = JUndefined

\* normalizeSkillsList(skills, resumeSkills)
CallNormalizeSkillsList ==
  /\ alignPc = "skills"
  /\ normalizedList' = normalizeSkillsList(rawList, keptList)
  /\ alignPc' = "skills-done"
  /\ UNCHANGED <<rawList, keptList, rawResume, rawAnalysis, serverResumeJson,
                 serverAnalysisJson, normPc, mergeVars, diffVars, engineVars, exportVars,
                 analysisVars,
                 renderVars>>

\* normalizePointsList(points, resumePoints, prefix)
CallNormalizePointsList ==
  /\ alignPc = "points"
  /\ normalizedList' = normalizePointsList(rawList, keptList, AlignPrefix)
  /\ alignPc' = "points-done"
  /\ UNCHANGED <<rawList, keptList, rawResume, rawAnalysis, serverResumeJson,
                 serverAnalysisJson, normPc, mergeVars, diffVars, engineVars, exportVars,
                 analysisVars,
                 renderVars>>

NextAlign == CallNormalizeSkillsList \/ CallNormalizePointsList

SpecAlign == InitAlignCalls /\ [][NextAlign]_vars

(***************************************************************************)
(* The engine on its own: buildChangeItems and buildUpdatedResumeData      *)
(* called with documents that may be absent, the change set being that of  *)
(* the two documents of a response, under any decisions                    *)
(***************************************************************************)
Absent(doc) == {doc, Undefined}

DecisionMaps(items) == [{items[n].id : n \in 1..Len(items)} -> BOOLEAN]

InitEngineCalls ==
  /\ InitDiff
  /\ InitExport
  /\ InitAnalysis
  /\ InitRender
  /\ InitNorm
  /\ \E response \in MixedResponses :
       /\ resumeJson \in Absent(response[1])
       /\ analysisJson \in Absent(response[2])
       /\ changeItems = buildChangeItems(response[1], response[2])
       /\ changeState \in DecisionMaps(changeItems)
  /\ resume0 = resumeJson
  /\ analysis0 = analysisJson
  /\ updatedResumeData = Undefined
  /\ updatedSkillRefs = <<>>
  /\ currentStep = 2
  /\ repeated = FALSE
  /\ builtItems = <<>>
  /\ enginePc = "input"

\* buildChangeItems(resumeJson, analysisJson)
CallBuildChangeItems ==
  /\ enginePc = "input"
  /\ builtItems' = buildChangeItems(resumeJson, analysisJson)
  /\ enginePc' = "items"
  /\ UNCHANGED <<mergeVars, diffVars, normVars, exportVars, analysisVars,
                 renderVars>>

\* buildUpdatedResumeData(resumeJson, analysisJson, changeItems, changeState)
CallBuildUpdatedResumeData ==
  /\ enginePc = "items"
  /\ updatedResumeData' =
       buildUpdatedResumeData(resumeJson, analysisJson, changeItems, changeState)
  /\ updatedSkillRefs' = SkillRefs(resumeJson, analysisJson, changeItems, changeState)
  /\ resumeJson' = ResumeAfterMerge(resumeJson, analysisJson, changeItems, changeState)
  /\ enginePc' = "merged"
  /\ UNCHANGED <<analysisJson, changeItems, changeState, currentStep, resume0, analysis0,
                 repeated, builtItems, diffVars, normVars, exportVars, analysisVars,
                 renderVars>>

NextEngine == CallBuildChangeItems \/ CallBuildUpdatedResumeData

SpecEngine == InitEngineCalls /\ [][NextEngine]_vars

(***************************************************************************)
(* The export of the merged document: steps 3 and 4 of the App             *)
(***************************************************************************)
MaxExports == 3

\* the responses the export is followed on: the summary and the skills edited
ExportResponses ==
  {<<Document(Summary("summary-1", "a"), PlainSkills, PlainExperience, PlainProjects),
     Document(Summary("summary-1", ct), cs, PlainExperience, PlainProjects)>> :
     ct \in {"a", "b"}, cs \in {PlainSkills, EditedSkills}}

ExportAnalysisResponse == AnalysisArrives(ExportResponses)

\* the stepper and the Back to Results button, between the review and the export
SetCurrentStep ==
  /\ currentStep \in {3, 4}
  /\ \E step \in {3, 4} : currentStep' = step
  /\ UNCHANGED <<resumeJson, analysisJson, changeItems, changeState, updatedResumeData,
                 updatedSkillRefs,
                 resume0, analysis0, repeated, diffVars, normVars, engineVars, exportVars,
                 analysisVars,
                 renderVars>>

\* requestDocxExport(resumeData) up to its await: the stored controller is aborted,
\* a new one is stored and the request leaves; the aborted call then runs its
\* finally, which clears the flag and whatever controller is stored
requestDocxExport(resumeData, download) ==
  LET controller == exportCount + 1
      aborted == {r \in exportRequests : r.controller = exportDocxAbortRef}
  IN /\ exportCount < MaxExports
     /\ exportCount' = controller
     /\ exportRequests' = (exportRequests \ aborted) \cup
          {[controller |-> controller, resumeData |-> resumeData, download |-> download]}
     /\ exportDocxAbortRef' = IF aborted = {} THEN controller ELSE NoController
     /\ exportingDocx' = (aborted = {})
     /\ UNCHANGED <<exportDocxUrl, downloaded>>

\* handleContinueToExport, the Continue button of step 3
handleContinueToExport ==
  /\ currentStep = 3
  /\ updatedResumeData # Undefined
  /\ currentStep' = 4
  /\ requestDocxExport(updatedResumeData, FALSE)
  /\ UNCHANGED <<resumeJson, analysisJson, changeItems, changeState, updatedResumeData,
                 updatedSkillRefs,
                 resume0, analysis0, repeated, diffVars, normVars, engineVars, analysisVars,
                 renderVars>>

\* handleDownload, the Download button of step 4, disabled while exportingDocx
handleDownload ==
  /\ currentStep = 4
  /\ ~exportingDocx
  /\ analysisJson # Undefined
  /\ updatedResumeData # Undefined
  /\ IF exportDocxUrl # Undefined
       THEN /\ downloaded' = [file |-> exportDocxUrl, merged |-> updatedResumeData]
            /\ UNCHANGED <<exportDocxUrl, exportingDocx, exportDocxAbortRef,
                           exportRequests, exportCount>>
       ELSE requestDocxExport(updatedResumeData, TRUE)
  /\ UNCHANGED <<mergeVars, diffVars, normVars, engineVars, analysisVars,
                 renderVars>>

\* the response of /api/export-docx is ok: the URL of the blob is stored, the
\* finally clears the flag and the controller, and handleDownload downloads it
ExportSucceeds ==
  /\ \E r \in exportRequests :
       /\ exportRequests' = exportRequests \ {r}
       /\ exportDocxUrl' = r.resumeData
       /\ downloaded' = IF r.download
                          THEN [file |-> r.resumeData, merged |-> updatedResumeData]
                          ELSE downloaded
  /\ exportingDocx' = FALSE
  /\ exportDocxAbortRef' = NoController
  /\ UNCHANGED <<exportCount, mergeVars, diffVars, normVars, engineVars, analysisVars,
                 renderVars>>

\* the response is not ok, or the fetch fails: the error is shown, the finally runs
ExportFails ==
  /\ \E r \in exportRequests : exportRequests' = exportRequests \ {r}
  /\ exportingDocx' = FALSE
  /\ exportDocxAbortRef' = NoController
  /\ UNCHANGED <<exportDocxUrl, exportCount, downloaded, mergeVars, diffVars, normVars,
                 engineVars, analysisVars,
                 renderVars>>

NextExport ==
  \/ ExportAnalysisResponse
  \/ ToggleChange
  \/ SetAllChanges
  \/ SetCurrentStep
  \/ handleContinueToExport
  \/ handleDownload
  \/ ExportSucceeds
  \/ ExportFails

SpecExport == Init /\ [][NextExport]_vars

(***************************************************************************)
(* The analysis request: startAnalysis, its outcomes, cancelAnalysis       *)
(***************************************************************************)
MaxAnalyses == 3

InitAnalysisFlow ==
  /\ InitDiff /\ InitNorm /\ InitEngine /\ InitExport /\ InitAnalysis /\ InitRender
  /\ resumeJson = Undefined
  /\ analysisJson = Undefined
  /\ changeItems = <<>>
  /\ changeState = EmptyState
  /\ updatedResumeData = Undefined
  /\ updatedSkillRefs = <<>>
  /\ currentStep = 1
  /\ resume0 = Undefined
  /\ analysis0 = Undefined
  /\ repeated = FALSE

InvalidResponse == "Invalid analysis response from server."

AnalysisFailed == "Analysis failed. Please try again."

AbortedByNothing(controller) == {}

\* controller.abort(): the request the controller belongs to
AbortedBy(controller) == {r \in analysisRequests : r.controller = controller}

\* what an aborted call of startAnalysis does next. Awaiting fetch it gets an
\* AbortError and returns; awaiting response.json() the rejection is caught and
\* gives {}, and the call throws its own error
ErrorOfAborted(hit) ==
  IF \E r \in hit : r.phase = "json" /\ r.ok THEN InvalidResponse
  ELSE IF \E r \in hit : r.phase = "json" THEN AnalysisFailed
  ELSE ""

\* startAnalysis up to its await, the Analyze Match button of step 1
startAnalysis ==
  LET controller == analysisCount + 1
      hit == IF abortRef = NoController THEN {} ELSE AbortedBy(abortRef)
  IN /\ currentStep = 1
     /\ ~isAnalyzing
     /\ analysisCount < MaxAnalyses
     /\ analysisCount' = controller
     /\ analysisRequests' =
          (analysisRequests \ hit) \cup {[controller |-> controller, phase |-> "fetch", ok |-> TRUE]}
     /\ abortRef' = IF hit = {} THEN controller ELSE NoController
     /\ isAnalyzing' = (ErrorOfAborted(hit) = "")
     /\ currentStep' = IF ErrorOfAborted(hit) = "" THEN 2 ELSE 1
     /\ error' = ErrorOfAborted(hit)
     /\ lastEvent' = "start"
     /\ UNCHANGED <<resumeJson, analysisJson, changeItems, changeState, updatedResumeData,
                    updatedSkillRefs, resume0, analysis0, repeated, analysisFrom,
                    cancelledAnalyses, diffVars, normVars, engineVars, exportVars,
                 renderVars>>

\* fetch resolves with the response, ok or not; the call awaits response.json()
ResponseArrives ==
  /\ \E r \in analysisRequests, ok \in BOOLEAN :
       /\ r.phase = "fetch"
       /\ analysisRequests' = (analysisRequests \ {r}) \cup {[r EXCEPT !.phase = "json", !.ok = ok]}
  /\ UNCHANGED <<isAnalyzing, abortRef, analysisCount, analysisFrom, cancelledAnalyses, error,
                 lastEvent, mergeVars, diffVars, normVars, engineVars, exportVars,
                 renderVars>>

\* lines 688-708: the data of an ok response is applied
AnalysisSucceeds ==
  /\ \E r \in analysisRequests :
       /\ r.phase = "json"
       /\ r.ok
       /\ analysisRequests' = analysisRequests \ {r}
       /\ analysisFrom' = r.controller
  /\ ResponseApplied(ExportResponses)
  /\ isAnalyzing' = FALSE
  /\ abortRef' = NoController
  /\ lastEvent' = "loaded"
  /\ UNCHANGED <<analysisCount, cancelledAnalyses, error, diffVars, normVars, engineVars,
                 renderVars>>

\* lines 709-720: the fetch fails, the response is not ok or has no analysis
AnalysisFails ==
  /\ \E r \in analysisRequests :
       /\ analysisRequests' = analysisRequests \ {r}
       /\ error' = IF r.phase = "json" /\ r.ok THEN InvalidResponse ELSE AnalysisFailed
  /\ isAnalyzing' = FALSE
  /\ currentStep' = 1
  /\ abortRef' = NoController
  /\ lastEvent' = "failed"
  /\ UNCHANGED <<resumeJson, analysisJson, changeItems, changeState, updatedResumeData,
                 updatedSkillRefs, resume0, analysis0, repeated, analysisCount, analysisFrom,
                 cancelledAnalyses, diffVars, normVars, engineVars, exportVars,
                 renderVars>>

\* cancelAnalysis, the Cancel button of step 2, and the aborted call after it
cancelAnalysis ==
  LET hit == IF abortRef = NoController THEN {} ELSE AbortedBy(abortRef)
  IN /\ currentStep = 2
     /\ analysisRequests' = analysisRequests \ hit
     /\ cancelledAnalyses' = cancelledAnalyses \cup ({abortRef} \ {NoController})
     /\ abortRef' = NoController
     /\ isAnalyzing' = FALSE
     /\ currentStep' = 1
     /\ error' = IF ErrorOfAborted(hit) = "" THEN error ELSE ErrorOfAborted(hit)
     /\ lastEvent' = "cancel"
     /\ UNCHANGED <<resumeJson, analysisJson, changeItems, changeState, updatedResumeData,
                    updatedSkillRefs, resume0, analysis0, repeated, analysisCount,
                    analysisFrom, diffVars, normVars, engineVars, exportVars,
                 renderVars>>

\* the stepper: with an analysis on screen and none running, the steps up to the
\* results can be selected (the export step is the subject of SpecExport)
SelectStep ==
  /\ resumeJson # Undefined
  /\ ~isAnalyzing
  /\ \E step \in 1..3 : step # currentStep /\ currentStep' = step
  /\ lastEvent' = "step"
  /\ UNCHANGED <<resumeJson, analysisJson, changeItems, changeState, updatedResumeData,
                 updatedSkillRefs, resume0, analysis0, repeated, isAnalyzing, abortRef,
                 analysisRequests, analysisCount, analysisFrom, cancelledAnalyses, error,
                 diffVars, normVars, engineVars, exportVars,
                 renderVars>>

NextAnalysis ==
  \/ startAnalysis
  \/ ResponseArrives
  \/ AnalysisSucceeds
  \/ AnalysisFails
  \/ cancelAnalysis
  \/ SelectStep

SpecAnalysis == InitAnalysisFlow /\ [][NextAnalysis]_vars

(***************************************************************************)
(* renderResumeText: the lines of the Experience section                   *)
(***************************************************************************)
MaxRenderJobs == 2

\* parts.filter(Boolean).join(' - ')
JoinDates(parts) ==
  LET kept == SelectSeq(parts, Truthy)
      join[n \in 0..Len(kept)] ==
        IF n = 0 THEN ""
        ELSE IF n = 1 THEN kept[1] ELSE join[n - 1] \o " - " \o kept[n]
  IN join[Len(kept)]

\* job.endDate || (job.isCurrent ? 'Present' : '')
EndOrPresent(job) ==
  IF Truthy(job.endDate) THEN job.endDate
  ELSE IF job.isCurrent THEN "Present" ELSE ""

\* a line pushed only if one of its parts is truthy
LineIf(line) == IF line = "" THEN <<>> ELSE <<line>>

\* (job.points || []).filter(getPointText).forEach(push `- ${text}`)
BulletLines(points) ==
  LET HasText(point) == Truthy(getPointText(point))
      kept == SelectSeq(points, HasText)
  IN [k \in 1..Len(kept) |-> "- " \o getPointText(kept[k])]

\* the callback of (resumeData.experience || []).forEach
RenderJob(job) ==
  LineIf(JoinTruthy(<<job.role, job.company, job.location>>))
    \o LineIf(JoinDates(<<job.startDate, EndOrPresent(job)>>))
    \o BulletLines(job.points)
    \o <<"">>

RECURSIVE RenderJobs(_)
RenderJobs(jobs) ==
  IF jobs = <<>> THEN <<>> ELSE RenderJob(Head(jobs)) \o RenderJobs(Tail(jobs))

\* lines.push('', 'Experience') and the jobs after it
RenderExperience(jobs) == <<"", "Experience">> \o RenderJobs(jobs)

RenderPointLists ==
  {<<>>, <<[id |-> "exp-1-1", text |-> "a"]>>,
   <<[id |-> "exp-1-1", text |-> ""], [id |-> "exp-1-2", text |-> "b"]>>}

RenderJobInputs ==
  [role : {"", "Developer"}, company : {"", "Acme"}, location : {""},
   startDate : {"", "2019"}, endDate : {"", "2021"}, isCurrent : BOOLEAN,
   points : RenderPointLists]

RenderInputs ==
  UNION {[1..n -> RenderJobInputs] : n \in 1..MaxRenderJobs}

InitRenderCalls ==
  /\ InitMerge /\ InitDiff /\ InitNorm /\ InitEngine /\ InitExport /\ InitAnalysis
  /\ renderJobs \in RenderInputs
  /\ renderedLines = <<>>
  /\ renderPc = "input"

CallRenderResumeText ==
  /\ renderPc = "input"
  /\ renderedLines' = RenderExperience(renderJobs)
  /\ renderPc' = "done"
  /\ UNCHANGED <<renderJobs, mergeVars, diffVars, normVars, engineVars, exportVars,
                 analysisVars>>

NextRender == CallRenderResumeText

SpecRender == InitRenderCalls /\ [][NextRender]_vars

(***************************************************************************)
(* Properties                                                              *)
(***************************************************************************)
\* the review screen shows the change set of a response
Loaded == currentStep = 3

ItemIndexes == 1..Len(changeItems)

\* the decision map accepts the change item with this id
Decided(id) == id \in DOMAIN changeState /\ changeState[id] = TRUE

AllAccepted == \A n \in ItemIndexes : Decided(changeItems[n].id)

NoneAccepted == \A n \in ItemIndexes : ~Decided(changeItems[n].id)

\* the texts of the entries of a skill list that carry the id
SkillTextsAt(skills, id) ==
  {skillEntryToText(skills[i]) : i \in {k \in 1..Len(skills) : SkillIdOrEmpty(skills[k]) = id}}

\* the texts of the points of a point list that carry the id
PointTextsAt(points, id) ==
  {points[i].text : i \in {k \in 1..Len(points) : points[k].id = id}}

\* the texts a document holds under the identity key of a change item
TextsAt(doc, item) ==
  IF item.type = "summary" THEN {doc.summary.text}
  ELSE IF item.type = "skill" THEN SkillTextsAt(doc.skills, item.skillId)
  ELSE IF item.type = "experience"
    THEN PointTextsAt(PointsOf(At(doc.experience, item.jobIndex + 1)), item.pointId)
    ELSE PointTextsAt(PointsOf(At(doc.projects, item.projectIndex + 1)), item.pointId)

\* no two entries of the list carry the same id
Distinct(ids) == \A i, k \in 1..Len(ids) : ids[i] = ids[k] => i = k

\* ids identify the entries of every list of the document
DistinctIds(doc) ==
  /\ Distinct(SkillIdsOf(doc.skills))
  /\ \A j \in 1..Len(doc.experience) : Distinct(PointIdsOf(doc.experience[j].points))
  /\ \A j \in 1..Len(doc.projects) : Distinct(PointIdsOf(doc.projects[j].points))

\* the field a change item addresses holds the item's afterText; an empty
\* afterText means that no non-empty entry is left under the key
HoldsAfterText(doc, item) ==
  IF item.after = "" THEN TextsAt(doc, item) \subseteq {""}
  ELSE TextsAt(doc, item) = {item.after}

\* C1: when every change item is accepted, every field a change item addresses
\* holds the candidate's value in the merged document: the text under the item's
\* identity key is the item's afterText, and nothing non-empty is left under the
\* key when afterText is empty. Stated for documents whose ids identify their
\* entries, where the key addresses one entry.
C1_AllAcceptedTakesCandidate ==
  (Loaded /\ DistinctIds(resume0) /\ DistinctIds(analysisJson) /\ AllAccepted) =>
    \A n \in ItemIndexes : HoldsAfterText(updatedResumeData, changeItems[n])

\* C2: when no change item is accepted (every decision false, or the decision map
\* without entries), the merged document equals the original document: same
\* summary, skills, jobs, projects and points, in the same order.
C2_NoneAcceptedIsOriginal ==
  Loaded =>
    /\ NoneAccepted => updatedResumeData = resume0
    /\ buildUpdatedResumeData(resume0, analysisJson, changeItems, EmptyState) = resume0

C2_Witness ==
  /\ Loaded
  /\ NoneAccepted
  /\ Len(changeItems) >= 2
  /\ analysisJson # resume0
  /\ updatedResumeData = resume0

\* the point lists a section holds at entry number j (none past its end)
SectionPoints(doc, section, j) == PointsOf(At(doc[section], j))

SectionType(section) == IF section = "experience" THEN "experience" ELSE "project"

\* the 0-based index of the job or project a point item belongs to
EntryIndexOf(item) == IF item.type = "experience" THEN item.jobIndex ELSE item.projectIndex

\* the change items for the point id of entry number j (1-based) of a section
PointItemsFor(section, j, id) ==
  {n \in ItemIndexes : /\ changeItems[n].type = SectionType(section)
                       /\ EntryIndexOf(changeItems[n]) = j - 1
                       /\ changeItems[n].pointId = id}

\* the point id occurs exactly once in the list
Once(points, id) == Cardinality({k \in 1..Len(points) : points[k].id = id}) = 1

Sections == {"experience", "projects"}

\* C3 as stated: whenever the original and the candidate hold a point with the
\* same id, wherever the two sit in their documents, exactly one change item
\* carries the original point's text as beforeText and the candidate point's
\* text as afterText.
C3_SameIdOneItem ==
  Loaded =>
    \A section \in Sections :
      \A j \in 1..Len(resume0[section]), l \in 1..Len(analysisJson[section]) :
        \A i \in 1..Len(resume0[section][j].points),
           k \in 1..Len(analysisJson[section][l].points) :
          LET before == resume0[section][j].points[i]
              after == analysisJson[section][l].points[k]
          IN before.id = after.id =>
               Cardinality({n \in ItemIndexes :
                              /\ changeItems[n].type = SectionType(section)
                              /\ changeItems[n].pointId = before.id
                              /\ changeItems[n].before = before.text
                              /\ changeItems[n].after = after.text}) = 1

\* C3 amended: whenever the original and the candidate hold a point with the same
\* id in the job (project) at the same index, the id occurring once in each of the
\* two point lists, the two are aligned under one identity key whatever their
\* positions in the two lists: exactly one change item carries that id, with the
\* original's text as beforeText and the candidate's as afterText, when the texts
\* differ, and no change item carries it when the texts are equal.
C3_SameIdAligned ==
  Loaded =>
    \A section \in Sections :
      \A j \in 1..Len(resume0[section]) :
        LET resumePoints == SectionPoints(resume0, section, j)
            analysisPoints == SectionPoints(analysisJson, section, j)
        IN \A i \in 1..Len(resumePoints), k \in 1..Len(analysisPoints) :
             LET before == resumePoints[i]
                 after == analysisPoints[k]
                 found == PointItemsFor(section, j, before.id)
             IN (/\ before.id = after.id
                 /\ Once(resumePoints, before.id)
                 /\ Once(analysisPoints, before.id)) =>
                  IF before.text = after.text THEN found = {}
                  ELSE /\ Cardinality(found) = 1
                       /\ \A n \in found : /\ changeItems[n].before = before.text
                                           /\ changeItems[n].after = after.text

\* two points with the same id and different texts sit at different positions of
\* the two point lists of one job, and one item aligns them
C3_Witness ==
  /\ Loaded
  /\ \E i, k \in 1..MaxPoints :
       LET resumePoints == SectionPoints(resume0, "experience", 1)
           analysisPoints == SectionPoints(analysisJson, "experience", 1)
       IN /\ i # k
          /\ i <= Len(resumePoints)
          /\ k <= Len(analysisPoints)
          /\ resumePoints[i].id = analysisPoints[k].id
          /\ resumePoints[i].text # analysisPoints[k].text
          /\ Once(analysisPoints, resumePoints[i].id)
          /\ Cardinality(PointItemsFor("experience", 1, resumePoints[i].id)) = 1

\* the entries of a sequence at the indexes of a set, in order
Pick(s, indexes) ==
  LET nth[n \in 1..Cardinality(indexes)] ==
        CHOOSE i \in indexes : Cardinality({k \in indexes : k < i}) = n - 1
  IN [n \in 1..Cardinality(indexes) |-> s[nth[n]]]

\* the length of the longest common subsequence, by its definition: the largest
\* number of positions of A and of B that hold the same tokens in the same order
LcsLength(A, B) ==
  LET common == {Cardinality(I) : I \in {X \in SUBSET (1..Len(A)) :
                   \E J \in SUBSET (1..Len(B)) : Pick(A, X) = Pick(B, J)}}
  IN CHOOSE n \in common : \A m \in common : m <= n

Tagged(ops, type) == {i \in 1..Len(ops) : ops[i].type = type}

\* C4: the number of tokens diffWords tags equal is the length of the longest
\* common subsequence of the two token sequences under exact, case-sensitive
\* equality, and two equal token sequences are tagged equal throughout, with
\* nothing removed or added.
C4_EqualCountIsLcs ==
  diffPc = "done" =>
    LET A == Words(beforeText)
        B == Words(afterText)
    IN /\ Cardinality(Tagged(operations, "equal")) = LcsLength(A, B)
       /\ A = B => /\ Len(operations) = Len(A)
                   /\ \A i \in 1..Len(operations) : operations[i] = Op("equal", A[i])

\* a diff with an equal token, and with a token removed and added back in another case
C4_Witness ==
  /\ diffPc = "done"
  /\ Tagged(operations, "equal") # {}
  /\ \E i \in Tagged(operations, "remove"), k \in Tagged(operations, "add") :
       /\ operations[i].value = <<"e">>
       /\ operations[k].value = <<"E">>

\* the identity key of the change item for a point of entry number j (1-based)
PointKey(section, j, id) ==
  (IF section = "experience" THEN "exp:" ELSE "proj:") \o ToString(j - 1) \o ":" \o id

\* C5: under any decisions, the points of every job and project of the original
\* keep their positions in the merged document: a point whose change is accepted
\* and whose id the candidate's entry at the same index also has is replaced in
\* place by the candidate's point, every other point is kept as it was, and the
\* points behind them are accepted points that only the candidate has.
C5_PointsKeepPosition ==
  Loaded =>
    \A section \in Sections :
      /\ Len(updatedResumeData[section]) >= Len(resume0[section])
      /\ \A j \in 1..Len(resume0[section]) :
           LET original == resume0[section][j].points
               candidate == SectionPoints(analysisJson, section, j)
               merged == updatedResumeData[section][j].points
               replaced(id) == /\ Decided(PointKey(section, j, id))
                               /\ PointTextsAt(candidate, id) # {}
           IN /\ Len(merged) >= Len(original)
              /\ \A i \in 1..Len(original) :
                   /\ merged[i].id = original[i].id
                   /\ IF replaced(original[i].id)
                        THEN merged[i].text \in PointTextsAt(candidate, original[i].id)
                        ELSE merged[i] = original[i]
              /\ \A i \in (Len(original) + 1)..Len(merged) :
                   /\ PointTextsAt(original, merged[i].id) = {}
                   /\ merged[i].text \in PointTextsAt(candidate, merged[i].id)
                   /\ Decided(PointKey(section, j, merged[i].id))

\* of two points of job 0 the first is replaced in place by a candidate point that
\* sits at another position, the second is kept, and a new point follows them
C5_Witness ==
  /\ Loaded
  /\ Len(resume0.experience) >= 1
  /\ Len(analysisJson.experience) >= 1
  /\ LET original == resume0.experience[1].points
         candidate == analysisJson.experience[1].points
         merged == updatedResumeData.experience[1].points
     IN /\ Len(original) = 2
        /\ Len(candidate) = 2
        /\ candidate[2].id = original[1].id
        /\ Decided(PointKey("experience", 1, original[1].id))
        /\ merged[1] = candidate[2]
        /\ merged[1] # original[1]
        /\ merged[2] = original[2]
        /\ Len(merged) = 3

\* the ids of the original's skill entries that the candidate's skill list omits
OmittedSkillIds ==
  {id \in Range(SkillIdsOf(resume0.skills)) : id \notin Range(SkillIdsOf(analysisJson.skills))}

\* the skill entries whose change is not accepted
UndecidedSkill(entry) == ~Decided("skill:" \o SkillIdOrEmpty(entry))

SkillItemsFor(id) ==
  {n \in ItemIndexes : changeItems[n].type = "skill" /\ changeItems[n].skillId = id}

\* after an accepted removal the entry is gone, and the entries whose change is not
\* accepted are the original's, in the original's order
SkillRemoved(id) ==
  Decided("skill:" \o id) =>
    /\ SkillTextsAt(updatedResumeData.skills, id) = {}
    /\ id \notin Range(SkillIdsOf(updatedResumeData.skills))
    /\ SelectSeq(updatedResumeData.skills, UndecidedSkill)
         = SelectSeq(resume0.skills, UndecidedSkill)

LastText(ids, texts, id) ==
  LET at == {i \in 1..Len(ids) : ids[i] = id}
  IN IF at = {} THEN "" ELSE texts[CHOOSE i \in at : \A k \in at : k <= i]

SkillTextsOf(skills) == [i \in 1..Len(skills) |-> skillEntryToText(skills[i])]

PointTextsOf(points) == [i \in 1..Len(points) |-> points[i].text]

\* the change items of a list agree with the texts of the two sides: an item for an
\* id exactly when the texts under the id differ, holding those texts
ItemsMatchTexts(found, resumeIds, resumeTexts, analysisIds, analysisTexts) ==
  \A id \in Range(resumeIds) \cup Range(analysisIds) :
    LET before == LastText(resumeIds, resumeTexts, id)
        after == LastText(analysisIds, analysisTexts, id)
    IN IF before = after THEN found[id] = {}
       ELSE /\ Cardinality(found[id]) = 1
            /\ \A n \in found[id] : /\ changeItems[n].before = before
                                    /\ changeItems[n].after = after

MaxEntries(section) == Max(Len(resume0[section]), Len(analysisJson[section]))

\* C7: for every id of the original's or the candidate's skill list, and of the
\* points of a job or a project of either document, the change set has an item for
\* the id if and only if the texts under the id on the two sides differ (label:value
\* text for skills, point text for points, empty when the id is absent on that
\* side); no item has equal or two empty texts, and every skill or point item
\* belongs to such an id.
C7_ItemIffTextsDiffer ==
  Loaded =>
    /\ ItemsMatchTexts([id \in Range(SkillIdsOf(resume0.skills))
                                   \cup Range(SkillIdsOf(analysisJson.skills))
                           |-> SkillItemsFor(id)],
                       SkillIdsOf(resume0.skills), SkillTextsOf(resume0.skills),
                       SkillIdsOf(analysisJson.skills), SkillTextsOf(analysisJson.skills))
    /\ \A section \in Sections :
         \A j \in 1..MaxEntries(section) :
           LET resumePoints == SectionPoints(resume0, section, j)
               analysisPoints == SectionPoints(analysisJson, section, j)
               found == [id \in Range(PointIdsOf(resumePoints))
                                    \cup Range(PointIdsOf(analysisPoints))
                           |-> PointItemsFor(section, j, id)]
           IN ItemsMatchTexts(found, PointIdsOf(resumePoints), PointTextsOf(resumePoints),
                              PointIdsOf(analysisPoints), PointTextsOf(analysisPoints))
    /\ \A n \in ItemIndexes :
         /\ changeItems[n].before # changeItems[n].after
         /\ ~(changeItems[n].before = "" /\ changeItems[n].after = "")
         /\ changeItems[n].type = "skill" =>
              changeItems[n].skillId \in Range(SkillIdsOf(resume0.skills))
                                           \cup Range(SkillIdsOf(analysisJson.skills))
         /\ changeItems[n].type \in {"experience", "project"} =>
              LET section == IF changeItems[n].type = "experience" THEN "experience"
                             ELSE "projects"
                  j == EntryIndexOf(changeItems[n]) + 1
              IN changeItems[n].pointId \in
                   Range(PointIdsOf(SectionPoints(resume0, section, j)))
                     \cup Range(PointIdsOf(SectionPoints(analysisJson, section, j)))

\* one job holds a point with the same non-empty text on both sides, which yields no
\* item, and a point whose texts differ, which yields one
C7_Witness ==
  /\ Loaded
  /\ Len(resume0.experience) >= 1
  /\ Len(analysisJson.experience) >= 1
  /\ LET resumePoints == resume0.experience[1].points
         analysisPoints == analysisJson.experience[1].points
     IN /\ Len(resumePoints) = 2
        /\ Len(analysisPoints) = 2
        /\ resumePoints[1].text # ""
        /\ resumePoints[1] = analysisPoints[2]
        /\ resumePoints[2].id = analysisPoints[1].id
        /\ resumePoints[2].text # analysisPoints[1].text
        /\ PointItemsFor("experience", 1, resumePoints[1].id) = {}
        /\ PointItemsFor("experience", 1, resumePoints[2].id) # {}

SummaryItemIndexes == {n \in ItemIndexes : changeItems[n].type = "summary"}

\* C8: the change set has exactly one summary item when the summary texts of the
\* original and the candidate differ and the candidate's text is not empty, and no
\* summary item otherwise.
C8_SummaryItemRule ==
  Loaded =>
    IF resume0.summary.text # analysisJson.summary.text /\ analysisJson.summary.text # ""
      THEN /\ Cardinality(SummaryItemIndexes) = 1
           /\ \A n \in SummaryItemIndexes :
                /\ changeItems[n].before = resume0.summary.text
                /\ changeItems[n].after = analysisJson.summary.text
      ELSE SummaryItemIndexes = {}

\* the candidate's summary differs from the original's and yields one item
C8_Witness ==
  /\ Loaded
  /\ resume0.summary.text = "a"
  /\ analysisJson.summary.text = "b"
  /\ Cardinality(SummaryItemIndexes) = 1

\* the candidate emptied the summary: the texts differ and no item is listed
C8_WitnessEmptied ==
  /\ Loaded
  /\ resume0.summary.text = "a"
  /\ analysisJson.summary.text = ""
  /\ SummaryItemIndexes = {}

FirstIndex(ids, id) == CHOOSE i \in 1..Len(ids) : ids[i] = id /\ \A k \in 1..(i - 1) : ids[k] # id

\* ids of the original rank by their first place in the original; candidate-only
\* ids rank after them by their first place in the candidate
IdRank(resumeIds, analysisIds, id) ==
  IF id \in Range(resumeIds) THEN FirstIndex(resumeIds, id)
  ELSE IF id \in Range(analysisIds) THEN Len(resumeIds) + FirstIndex(analysisIds, id)
  ELSE 0

TypeRank(type) ==
  CASE type = "summary" -> 0
    [] type = "skill" -> 1
    [] type = "experience" -> 2
    [] type = "project" -> 3

\* <<section, entry, place of the id>> of a change item
ItemRank(item) ==
  CASE item.type = "summary" -> <<0, 0, 0>>
    [] item.type = "skill" ->
         <<1, 0, IdRank(SkillIdsOf(resume0.skills), SkillIdsOf(analysisJson.skills),
                        item.skillId)>>
    [] OTHER ->
         LET section == IF item.type = "experience" THEN "experience" ELSE "projects"
             j == EntryIndexOf(item) + 1
         IN <<TypeRank(item.type), j,
              IdRank(PointIdsOf(SectionPoints(resume0, section, j)),
                     PointIdsOf(SectionPoints(analysisJson, section, j)), item.pointId)>>

RankBefore(a, b) ==
  \/ a[1] < b[1]
  \/ a[1] = b[1] /\ a[2] < b[2]
  \/ a[1] = b[1] /\ a[2] = b[2] /\ a[3] < b[3]

C10_MergeTwiceSame ==
  Loaded =>
    /\ buildUpdatedResumeData(resumeJson, analysisJson, changeItems, changeState)
         = updatedResumeData
    /\ updatedResumeData
         = buildUpdatedResumeData(resume0, analysisJson, changeItems, changeState)

\* the merge ran again on the same change set and decisions, with an accepted change
\* that makes the merged document differ from the original
C10_Witness ==
  /\ Loaded
  /\ repeated
  /\ \E n \in ItemIndexes : Decided(changeItems[n].id)
  /\ updatedResumeData # resume0

\* the arrays of the merged document are arrays the merge created
NewDocument(work) ==
  /\ work.skills.fresh
  /\ work.experience.fresh
  /\ work.projects.fresh
  /\ \A j \in 1..Len(work.experience.arr) : work.experience.arr[j].points.fresh
  /\ \A j \in 1..Len(work.projects.arr) : work.projects.arr[j].points.fresh

\* C11: after every merge the original and the candidate, with their skills, jobs,
\* projects and point lists, are equal to the documents the server sent, and the
\* merged document is made of arrays of its own.
C11_InputsNotMutated ==
  Loaded =>
    /\ resumeJson = resume0
    /\ analysisJson = analysis0
    /\ NewDocument(MergeWork(resumeJson, analysisJson, changeItems, changeState))

\* a skill change and a point change are accepted and the merged document differs
\* from the original in both sections, the original being as it was sent
C11_Witness ==
  /\ Loaded
  /\ \E m, n \in ItemIndexes :
       /\ changeItems[m].type = "skill"
       /\ changeItems[n].type = "experience"
       /\ Decided(changeItems[m].id)
       /\ Decided(changeItems[n].id)
  /\ updatedResumeData.skills # resume0.skills
  /\ updatedResumeData.experience # resume0.experience
  /\ resumeJson = resume0

\* the normalizers have run: the resume's, and the analysis's when `both`
Normalized(both) == normPc = "analysis" \/ (~both /\ normPc = "resume")

Field(doc, key) == PropOf(doc.props, key)

IsText(v) == v.t = "string"

\* an object that has each of the keys, with a string under it
HasTextFields(v, keys) == v.t = "object" /\ \A key \in keys : IsText(Field(v, key))

IsPointList(v) ==
  /\ v.t = "array"
  /\ \A i \in 1..Len(v.items) : HasTextFields(v.items[i], {"id", "text"})

IsListOf(v, keys) ==
  /\ v.t = "array"
  /\ \A i \in 1..Len(v.items) : HasTextFields(v.items[i], keys)

IsEntryList(v, keys) ==
  /\ IsListOf(v, keys)
  /\ \A i \in 1..Len(v.items) : IsPointList(Field(v.items[i], "points"))

\* every required field is there, in its shape
WellShaped(doc) ==
  /\ doc.t = "object"
  /\ HasTextFields(Field(doc, "summary"), {"id", "text"})
  /\ IsListOf(Field(doc, "skills"), {"id"})
  /\ IsEntryList(Field(doc, "experience"),
                 {"company", "role", "location", "startDate", "endDate", "isCurrent"})
  /\ IsEntryList(Field(doc, "projects"), {"name", "technologies", "link"})
  /\ IsListOf(Field(doc, "education"),
              {"institution", "degree", "field", "startDate", "endDate"})
  /\ IsListOf(Field(doc, "certificates"), {"name", "issuer", "year"})

ResumeWellShaped(doc) ==
  /\ WellShaped(doc)
  /\ HasTextFields(Field(doc, "basics"),
                   {"name", "email", "phone", "location", "linkedin", "github", "portfolio"})

\* C12: the normalizers never throw, and the documents they return have every
\* required field (basics, summary, skills, experience, projects, education,
\* certificates, and the template fields of every entry) in its shape: strings where
\* the template has strings, sequences of {id, text} points, sequences of entries.
C12_NormalizedWellShaped ==
  /\ Normalized(FALSE) => ResumeWellShaped(serverResumeJson)
  /\ Normalized(TRUE) /\ ResumeWellShaped(serverResumeJson) => WellShaped(serverAnalysisJson)

\* the part of C12 that holds: no raw input makes a normalizer throw
NormalizersNeverThrow ==
  /\ Normalized(FALSE) => ~Throws(serverResumeJson)
  /\ Normalized(TRUE) => ~Throws(serverAnalysisJson)

HasId(v) == v.t = "object" /\ IsText(Field(v, "id")) /\ Field(v, "id").s # ""

ListHasIds(v) == v.t = "array" /\ \A i \in 1..Len(v.items) : HasId(v.items[i])

\* the summary, every skill entry and every point of the document carry an id
AllHaveIds(doc) ==
  /\ HasId(Field(doc, "summary"))
  /\ ListHasIds(Field(doc, "skills"))
  /\ \A section \in {"experience", "projects"} :
       /\ Field(doc, section).t = "array"
       /\ \A j \in 1..Len(Field(doc, section).items) :
            ListHasIds(Field(Field(doc, section).items[j], "points"))

\* the id an entry arrives with: a string with something in it, trimmed; "" otherwise
ArrivedId(v) ==
  IF v.t \in {"object", "array"} /\ PropOf(OwnProps(v), "id").t = "string"
    THEN Trim(PropOf(OwnProps(v), "id").s)
    ELSE ""

\* the elements of a raw list that reach the normalized list, by their 1-based
\* place of arrival: objects for a skill list, anything truthy for a point list
Arrived(raw, objectsOnly) ==
  {n \in 1..Len(ArrayOrEmpty(raw)) :
     IF objectsOnly THEN IsObject(raw.items[n]) ELSE JTruthy(raw.items[n])}

\* the entries of the normalized list are the arrived elements in order, and an
\* element that arrived without an id has the id of its place of arrival
IdsByPlace(raw, objectsOnly, normalized, prefix) ==
  LET arrived == Arrived(raw, objectsOnly)
      place(n) == Cardinality({k \in arrived : k <= n})
  IN /\ normalized.t = "array"
     /\ Len(normalized.items) = Cardinality(arrived)
     /\ \A n \in arrived :
          Field(normalized.items[place(n)], "id").s =
            IF ArrivedId(raw.items[n]) # "" THEN ArrivedId(raw.items[n])
            ELSE prefix \o "-" \o ToString(n)

RawField(raw, key) == IF IsObject(raw) THEN PropOf(OwnProps(raw), key) ELSE JUndefined

\* the jobs or projects of a raw document that reach the normalized document
ArrivedEntries(raw, section) ==
  {n \in 1..Len(ArrayOrEmpty(RawField(raw, section))) :
     JTruthy(RawField(raw, section).items[n])}

\* C13: in the documents the normalizers return, the summary, every skill entry and
\* every experience and project point carries a non-empty id; a summary, skill entry
\* or point that reaches normalizeResumeJson without an id (a non-empty string) gets
\* summary-1, skill-<n>, exp-<job>-<point> or proj-<project>-<point>, n, job,
\* project and point being the 1-based places at which it arrived in the raw lists;
\* so does a skill entry of the optimizers' output when the resume has no skills.
C13_NormalizedIds ==
  /\ Normalized(FALSE) =>
       /\ AllHaveIds(serverResumeJson)
       /\ ArrivedId(RawField(rawResume, "summary")) = "" =>
            Field(Field(serverResumeJson, "summary"), "id").s = "summary-1"
       /\ IdsByPlace(RawField(rawResume, "skills"), TRUE,
                     Field(serverResumeJson, "skills"), "skill")
       /\ \A section \in {"experience", "projects"} :
            LET arrived == ArrivedEntries(rawResume, section)
                place(n) == Cardinality({k \in arrived : k <= n})
                normalized == Field(serverResumeJson, section)
            IN /\ Len(normalized.items) = Cardinality(arrived)
               /\ \A n \in arrived :
                    IdsByPlace(RawField(RawField(rawResume, section).items[n], "points"),
                               FALSE, Field(normalized.items[place(n)], "points"),
                               (IF section = "experience" THEN "exp" ELSE "proj")
                                 \o "-" \o ToString(n))
  /\ Normalized(TRUE) =>
       /\ AllHaveIds(serverAnalysisJson)
       /\ Field(serverResumeJson, "skills").items = <<>> =>
            IdsByPlace(RawField(rawAnalysis, "skills"), TRUE,
                       Field(serverAnalysisJson, "skills"), "skill")

\* the second job of the raw resume, arriving after a null, has a point without an
\* id, which gets exp-2-1; the optimizer's first skill has no id and no counterpart
\* in the resume, and gets skill-1
C13_Witness ==
  /\ Normalized(TRUE)
  /\ RawField(rawResume, "experience")
       = JArray(<<JNull, RawJob(JUndefined, JArray(<<JString("a")>>))>>)
  /\ Field(Field(serverResumeJson, "experience").items[1], "points").items
       = <<IdText(JString("exp-2-1"), JString("a"))>>
  /\ RawField(rawAnalysis, "skills")
       = JArray(<<WithProps(<< <<"label", JString("Cloud")>> >>)>>)
  /\ Field(Field(serverAnalysisJson, "skills").items[1], "id") = JString("skill-1")

\* the number of before tokens, and of after tokens, that the operations up to
\* number k cover: the cell of the table at which the backtrack chose operation k
BeforeCovered(ops, k) == Cardinality({n \in 1..k : ops[n].type # "add"})

AfterCovered(ops, k) == Cardinality({n \in 1..k : ops[n].type # "remove"})

\* at the cell of operation k both tokens are there and differ, and dropping the
\* before token and dropping the after token leave common subsequences of one length
TieAt(A, B, ops, k) ==
  LET i == BeforeCovered(ops, k)
      j == AfterCovered(ops, k)
  IN /\ i > 0
     /\ j > 0
     /\ A[i] # B[j]
     /\ LcsLength(SubSeq(A, 1, i - 1), SubSeq(B, 1, j))
          = LcsLength(SubSeq(A, 1, i), SubSeq(B, 1, j - 1))

\* C14: wherever the backtrack stands on two different tokens and the move up and
\* the move left keep the same longest-common-subsequence length, the operation it
\* chooses there removes the before token; it never adds the after token at a tie.
C14_TieRemovesFirst ==
  diffPc = "done" =>
    LET A == Words(beforeText)
        B == Words(afterText)
    IN \A k \in 1..Len(operations) :
         TieAt(A, B, operations, k) =>
           operations[k] = Op("remove", A[BeforeCovered(operations, k)])

\* a tie between a kept longer match on either side: "e E" against "E e"
C14_Witness ==
  /\ diffPc = "done"
  /\ Words(beforeText) = << <<"e">>, <<"E">> >>
  /\ Words(afterText) = << <<"E">>, <<"e">> >>
  /\ TieAt(Words(beforeText), Words(afterText), operations, Len(operations))
  /\ operations[Len(operations)] = Op("remove", <<"E">>)

Values(ops) == [i \in 1..Len(ops) |-> ops[i].value]

AllWhitespace(text) == \A i \in 1..Len(text) : text[i] = " "

\* C15: the tokens of the before view are the before tokens in their order, each
\* tagged equal or removed; the tokens of the after view are the after tokens in
\* their order, each tagged equal or added; the view of an empty or all-whitespace
\* text is empty.
C15_ViewsAreTheTokens ==
  diffPc = "done" =>
    /\ Values(BeforeView(operations)) = Words(beforeText)
    /\ Values(AfterView(operations)) = Words(afterText)
    /\ \A i \in 1..Len(BeforeView(operations)) :
         BeforeView(operations)[i].type \in {"equal", "remove"}
    /\ \A i \in 1..Len(AfterView(operations)) :
         AfterView(operations)[i].type \in {"equal", "add"}
    /\ AllWhitespace(beforeText) => BeforeView(operations) = <<>>
    /\ AllWhitespace(afterText) => AfterView(operations) = <<>>

\* the before text is blank and its view empty, while the after view shows two
\* added tokens; no token is equal
C15_Witness ==
  /\ diffPc = "done"
  /\ beforeText = <<" ", " ">>
  /\ BeforeView(operations) = <<>>
  /\ Len(AfterView(operations)) = 2

\* both views show an equal token beside a removed or an added one
C15_WitnessMixed ==
  /\ diffPc = "done"
  /\ {BeforeView(operations)[i].type : i \in 1..Len(BeforeView(operations))}
       = {"equal", "remove"}
  /\ {AfterView(operations)[i].type : i \in 1..Len(AfterView(operations))}
       = {"equal", "add"}

\* C16: buildChangeItems returns the empty sequence, and does not throw, whenever
\* the original or the candidate is absent.
C16_AbsentGivesNoItems ==
  enginePc \in {"items", "merged"} /\ (resume0 = Undefined \/ analysis0 = Undefined) =>
    builtItems = <<>>

\* the candidate alone is absent, and the change set of the call is empty although
\* the two documents of the response differ
C16_Witness ==
  /\ enginePc = "items"
  /\ resume0 # Undefined
  /\ analysis0 = Undefined
  /\ changeItems # <<>>
  /\ builtItems = <<>>

\* the original alone is absent
C16_WitnessNoOriginal ==
  /\ enginePc = "items"
  /\ resume0 = Undefined
  /\ analysis0 # Undefined
  /\ builtItems = <<>>

\* C17: with the candidate absent the merge returns the copy of the original as it
\* is, for every change set and every decisions, all true included, and leaves the
\* original as it was.
C17_AbsentCandidateIsCopy ==
  enginePc = "merged" /\ analysis0 = Undefined /\ resume0 # Undefined =>
    /\ updatedResumeData = resume0
    /\ resumeJson = resume0

\* the merge ran without a candidate on a change set of four kinds of item, all
\* of them accepted
C17_Witness ==
  /\ enginePc = "merged"
  /\ analysis0 = Undefined
  /\ resume0 # Undefined
  /\ {changeItems[n].type : n \in ItemIndexes} = {"summary", "skill", "experience", "project"}
  /\ AllAccepted
  /\ updatedResumeData = resume0

\* C18: a stored export URL is that of a DOCX generated from the current merged
\* document, and so is every file downloaded, under every interleaving of the
\* user's actions and the completions of the export requests.
C18_UrlIsOfCurrentDocument ==
  /\ exportDocxUrl # Undefined => exportDocxUrl = updatedResumeData
  /\ downloaded # Undefined => downloaded.file = downloaded.merged

\* a change of decisions aborts the request of the stored controller and clears
\* the URL
C18_OneRequestIsInvalidated ==
  exportCount <= 1 =>
    /\ exportDocxUrl # Undefined => exportDocxUrl = updatedResumeData
    /\ \A r \in exportRequests : r.resumeData = updatedResumeData

\* the skill items accepted
AcceptedSkillItems ==
  {n \in ItemIndexes : changeItems[n].type = "skill" /\ Decided(changeItems[n].id)}

\* the candidate's entries that carry the id
CandidateSkillsAt(id) ==
  SelectSeq(analysis0.skills, LAMBDA entry : SkillIdOrEmpty(entry) = id)

\* the skill list the claim gives for one accepted skill item on the original's list
SkillsAfterAccepting(id) ==
  LET found == CandidateSkillsAt(id)
      place == FindIndex(SkillIdsOf(resume0.skills), id)
  IN IF found # <<>> /\ skillEntryToText(found[1]) # ""
       THEN IF place > 0 THEN [resume0.skills EXCEPT ![place] = found[1]]
            ELSE Append(resume0.skills, found[1])
       ELSE IF place > 0 THEN SpliceOut(resume0.skills, place) ELSE resume0.skills

\* C19: an accepted skill item, the only skill item accepted, whose id the candidate
\* carries at most once: the candidate's entry, when it has a label or a value, is
\* put at the place the id has in the list, or appended when the list has no such
\* id, the other entries keeping their order; when the candidate has no entry with
\* the id, or one without label and value, the entry with the id is removed.
C19_AcceptedSkillChange ==
  Loaded =>
    \A n \in AcceptedSkillItems :
      (AcceptedSkillItems = {n} /\ Len(CandidateSkillsAt(changeItems[n].skillId)) <= 1) =>
        updatedResumeData.skills = SkillsAfterAccepting(changeItems[n].skillId)

\* the same without the case of a candidate entry that has neither label nor value:
\* replacement, append and the removal for an absent entry
C19_AcceptedSkillChangeByKeys ==
  Loaded =>
    \A n \in AcceptedSkillItems :
      LET id == changeItems[n].skillId
      IN (AcceptedSkillItems = {n} /\ Len(CandidateSkillsAt(id)) <= 1
            /\ (CandidateSkillsAt(id) # <<>> => skillEntryToText(CandidateSkillsAt(id)[1]) # "")) =>
           updatedResumeData.skills = SkillsAfterAccepting(id)

\* the candidate's points of entry j whose change item is accepted, as the merge
\* copies them
AcceptedCandidatePoints(section, j) ==
  LET points == analysis0[section][j].points
  IN {[id |-> points[k].id, text |-> getPointText(points[k])] :
        k \in {i \in 1..Len(points) :
                 \E n \in PointItemsFor(section, j, PointIdOrEmpty(points[i])) :
                   Decided(changeItems[n].id)}}

\* the entry without its points
ScalarFields(entry) == [key \in DOMAIN entry \ {"points"} |-> entry[key]]

\* C20: ids identifying the candidate's points, every job or project of the merged
\* document at an index the original did not have carries the scalar fields of the
\* candidate's entry at the same index, and its points are exactly the accepted
\* candidate points of that index.
C20_SynthesizedEntries ==
  Loaded /\ DistinctIds(analysis0) =>
    \A section \in Sections :
      \A j \in (Len(resume0[section]) + 1)..Len(updatedResumeData[section]) :
        /\ j <= Len(analysis0[section])
        /\ ScalarFields(updatedResumeData[section][j]) = ScalarFields(analysis0[section][j])
        /\ Range(updatedResumeData[section][j].points) = AcceptedCandidatePoints(section, j)

\* what the padding loop gives: the entries created for one accepted point all carry
\* the scalar fields of the candidate's entry the point belongs to, which is an
\* entry of the candidate at the same or a later index
C20_SynthesizedFromTargetedEntry ==
  Loaded /\ DistinctIds(analysis0) =>
    \A section \in Sections :
      \A j \in (Len(resume0[section]) + 1)..Len(updatedResumeData[section]) :
        /\ \E k \in j..Len(analysis0[section]) :
             ScalarFields(updatedResumeData[section][j]) = ScalarFields(analysis0[section][k])
        /\ Range(updatedResumeData[section][j].points) = AcceptedCandidatePoints(section, j)

\* the entry has neither a label nor a value under extractSkillLabelValue
StructurallyEmpty(entry) ==
  extractSkillLabelValue(entry).label = "" /\ extractSkillLabelValue(entry).value = ""

\* C21: the merged document has no skill entry without label and value.
C21_NoEmptySkillEntry ==
  Loaded =>
    \A i \in 1..Len(updatedResumeData.skills) : ~StructurallyEmpty(updatedResumeData.skills[i])

\* the 1-based indexes at which the raw list or the fallback list has an entry
PresentIndexes ==
  {n \in 1..Max(Len(ArrayOrEmpty(rawList)), Len(ArrayOrEmpty(keptList))) :
     JTruthy(ItemAt(ArrayOrEmpty(rawList), n - 1))
       \/ JTruthy(ItemAt(ArrayOrEmpty(keptList), n - 1))}

\* the id the claim gives the entry of index n: the raw entry's, else the fallback
\* entry's, else the generated one
AlignedId(n, generated) ==
  LET raw == ItemAt(ArrayOrEmpty(rawList), n - 1)
      kept == ItemAt(ArrayOrEmpty(keptList), n - 1)
  IN IF ArrivedId(raw) # "" THEN ArrivedId(raw)
     ELSE IF ArrivedId(kept) # "" THEN ArrivedId(kept)
     ELSE generated

\* the entry whose content the claim gives the entry of index n
AlignedSource(n) ==
  OrElse(ItemAt(ArrayOrEmpty(rawList), n - 1), ItemAt(ArrayOrEmpty(keptList), n - 1))

\* the properties of an entry other than its id
Content(entry) == SelectSeq(OwnProps(entry), LAMBDA pair : pair[1] # "id")

\* the normalized list has one entry for each of the indexes, in order, with the
\* aligned id and content
AlignedAt(indexes) ==
  LET place(n) == Cardinality({k \in indexes : k <= n})
  IN /\ normalizedList.t = "array"
     /\ Len(normalizedList.items) = Cardinality(indexes)
     /\ \A n \in indexes :
          LET entry == normalizedList.items[place(n)]
          IN IF alignPc = "skills-done"
               THEN /\ Field(entry, "id") = JString(AlignedId(n, "skill-" \o ToString(n)))
                    /\ Content(entry) = Content(AlignedSource(n))
               ELSE entry = IdText(JString(AlignedId(n, AlignPrefix \o "-" \o ToString(n))),
                                   serverGetPointText(AlignedSource(n)))

\* C22: the normalized skill list or point list has an entry for every index at
\* which the raw list or the fallback list has one, and for no other; the entry's id
\* is the raw entry's when it has a non-empty one, else the fallback entry's at the
\* same index, else the id generated for the index; its content is the raw entry's
\* when the raw list has an entry at the index, else the fallback entry's.
C22_IndexAligned ==
  alignPc \in {"skills-done", "points-done"} => AlignedAt(PresentIndexes)

\* the indexes whose entry normalizeSkillEntry keeps: the entry taken is an object
KeptIndexes ==
  {n \in PresentIndexes : alignPc = "points-done" \/ IsObject(AlignedSource(n))}

\* the alignment as it is: that of the claim, over the indexes whose entry is kept
C22_KeptIndexAligned ==
  alignPc \in {"skills-done", "points-done"} => AlignedAt(KeptIndexes)

ItemIds == [n \in ItemIndexes |-> changeItems[n].id]

PresentRawIds ==
  SelectSeq([n \in 1..Len(ArrayOrEmpty(rawList)) |-> ArrivedId(rawList.items[n])],
            LAMBDA id : id # "")

NormalizedIds ==
  [n \in 1..Len(normalizedList.items) |-> Field(normalizedList.items[n], "id")]

\* C24: the normalized skill list or point list of a raw list whose present ids are
\* pairwise distinct has pairwise distinct ids, without a fallback list (the resume)
\* and with the resume's normalized list as the fallback (the candidate).
C24_NormalizedIdsDistinct ==
  alignPc \in {"skills-done", "points-done"} /\ Distinct(PresentRawIds) =>
    Distinct(NormalizedIds)

\* the ids are distinct when no entry of the raw list brings an id
C24_GeneratedIdsDistinct ==
  alignPc \in {"skills-done", "points-done"} /\ PresentRawIds = <<>> =>
    Distinct(NormalizedIds)

\* the object a reference stands for
Referent(ref) ==
  IF ref.of = "original" THEN resume0.skills[ref.index] ELSE analysis0.skills[ref.index]

\* the references are those of the skill entries of the merged document
RefsAreOfMergedSkills ==
  Loaded =>
    /\ Len(updatedSkillRefs) = Len(updatedResumeData.skills)
    /\ \A i \in 1..Len(updatedSkillRefs) :
         Referent(updatedSkillRefs[i]) = updatedResumeData.skills[i]

\* C25: no skill entry of the merged document is an object of the original.
C25_NoObjectOfOriginal ==
  Loaded => \A i \in 1..Len(updatedSkillRefs) : updatedSkillRefs[i].of # "original"

SectionNames ==
  {"basics", "summary", "skills", "experience", "projects", "education", "certificates"}

\* every section present, the summary and every skill entry with a non-empty id,
\* every job and project with a point list, every point {id, text} with a non-empty id
FullyNormalized(doc) ==
  /\ DOMAIN doc = SectionNames
  /\ DOMAIN doc.summary = {"id", "text"}
  /\ doc.summary.id # ""
  /\ \A i \in 1..Len(doc.skills) : SkillIdOrEmpty(doc.skills[i]) # ""
  /\ \A section \in Sections :
       \A j \in 1..Len(doc[section]) :
         /\ "points" \in DOMAIN doc[section][j]
         /\ \A k \in 1..Len(doc[section][j].points) :
              /\ DOMAIN doc[section][j].points[k] = {"id", "text"}
              /\ doc[section][j].points[k].id # ""

\* C26: for a normalized original and candidate, the merged document, which is the
\* document of every export request, is fully normalized under every decisions.
C26_MergedIsNormalized ==
  Loaded =>
    /\ FullyNormalized(resume0) /\ FullyNormalized(analysis0)
    /\ FullyNormalized(updatedResumeData)

\* the summary, a skill, and a point of a job the original does not have are accepted
C26_Witness ==
  /\ Loaded
  /\ AllAccepted
  /\ updatedResumeData.summary # resume0.summary
  /\ updatedResumeData.skills # resume0.skills
  /\ \E n \in ItemIndexes : changeItems[n].type = "project"

\* a job the original does not have is synthesized for an accepted point
C26_WitnessSynthesized ==
  /\ Loaded
  /\ Len(updatedResumeData.experience) > Len(resume0.experience)

\* the document of an export request is the merged document of the time of the
\* request, a normalized document
C26_ExportedIsNormalized ==
  \A r \in exportRequests : FullyNormalized(r.resumeData)

C26_WitnessExported ==
  \E r \in exportRequests : r.resumeData # resume0

\* C27: after cancelAnalysis the App is at step 1 and not analyzing; the documents
\* on screen are never those of a cancelled request, and no cancelled request stays
\* in flight to deliver them later; while an analysis runs, its controller is the
\* stored one, so that it can be cancelled, also after an earlier cancellation.
C27_CancelledHasNoEffect ==
  /\ lastEvent = "cancel" => currentStep = 1 /\ ~isAnalyzing
  /\ analysisFrom \notin cancelledAnalyses
  /\ \A r \in analysisRequests : r.controller \notin cancelledAnalyses
  /\ isAnalyzing => \E r \in analysisRequests : r.controller = abortRef

\* a request started after a cancellation delivered the documents on screen
C27_Witness ==
  /\ lastEvent = "loaded"
  /\ cancelledAnalyses # {}
  /\ analysisFrom # NoController
  /\ resumeJson # Undefined

\* a second request was cancelled after a first one
C27_WitnessCancelledTwice ==
  /\ lastEvent = "cancel"
  /\ Cardinality(cancelledAnalyses) = 2

\* a request cancelled while its response was being read leaves an error message
C27_WitnessErrorAfterCancel ==
  /\ lastEvent = "cancel"
  /\ error = InvalidResponse

\* C28: whenever an export request that has not been aborted is in flight,
\* exportingDocx is true and exportDocxAbortRef holds that request's controller;
\* hence at most one such request is in flight at a time.
C28_ExportRequestIsTracked ==
  /\ \A r \in exportRequests : exportingDocx /\ exportDocxAbortRef = r.controller
  /\ Cardinality(exportRequests) <= 1

\* the same for the first request only: until requestDocxExport runs a second
\* time, the request in flight is the tracked one
C28_FirstRequestIsTracked ==
  exportCount <= 1 =>
    /\ \A r \in exportRequests : exportingDocx /\ exportDocxAbortRef = r.controller
    /\ Cardinality(exportRequests) <= 1

\* two requests that were not aborted are in flight together
C28_TwoInFlight == Cardinality(exportRequests) = 2

\* the decisions of the map alone: every item's id with whether it is accepted
Decisions(state) ==
  [id \in {changeItems[n].id : n \in ItemIndexes} |-> Accepted(state, id)]

\* the merged document of a decision map, from the documents the server sent
MergedUnder(state) ==
  buildUpdatedResumeData(resume0, analysis0, changeItems, state)

\* C29 as stated: after any sequence of toggleChange and setAllChanges the
\* merged document is the merge of the documents received under the current
\* decisions and depends on nothing else; toggling an item twice restores it, and
\* so does Apply all followed by Undo all; with no decision true it is the original.
C29_DecisionsRoundTrip ==
  Loaded =>
    /\ updatedResumeData = MergedUnder(changeState)
    /\ updatedResumeData = MergedUnder(Decisions(changeState))
    /\ \A n \in ItemIndexes :
         MergedUnder(Toggled(Toggled(changeState, changeItems[n].id), changeItems[n].id))
           = updatedResumeData
    /\ MergedUnder(AllSetTo(changeItems, FALSE)) = updatedResumeData
    /\ NoneAccepted => updatedResumeData = resume0

\* C29 with the round trip of Apply all and Undo all told as the code has it:
\* Undo all gives the original whatever came before, which is the document
\* from before exactly when the merge under the decisions from before is the original.
C29_DecisionsRoundTripToOriginal ==
  Loaded =>
    /\ updatedResumeData = MergedUnder(changeState)
    /\ updatedResumeData = MergedUnder(Decisions(changeState))
    /\ \A n \in ItemIndexes :
         MergedUnder(Toggled(Toggled(changeState, changeItems[n].id), changeItems[n].id))
           = updatedResumeData
    /\ MergedUnder(AllSetTo(changeItems, FALSE)) = resume0
    /\ NoneAccepted => /\ updatedResumeData = resume0
                       /\ MergedUnder(AllSetTo(changeItems, FALSE)) = updatedResumeData

\* some changes are accepted and some declined, and the document differs from the
\* original and from the one with every change accepted
C29_Witness ==
  /\ Loaded
  /\ \E n \in ItemIndexes : changeItems[n].id \in DOMAIN changeState /\ ~Decided(changeItems[n].id)
  /\ \E n \in ItemIndexes : Decided(changeItems[n].id)
  /\ updatedResumeData # resume0
  /\ MergedUnder(AllSetTo(changeItems, TRUE)) # updatedResumeData

\* Undo all after decisions: every key false, the document is the original
C29_WitnessUndone ==
  /\ Loaded
  /\ Len(changeItems) >= 2
  /\ changeState = AllSetTo(changeItems, FALSE)
  /\ updatedResumeData = resume0
  /\ MergedUnder(AllSetTo(changeItems, TRUE)) # resume0

\* the lines the claim gives for one job: the heading, the date line of the start
\* date and the end date, "Present" taking the end date's place when isCurrent is
\* set, the date line left out only when it is empty, then the bullets
ClaimedJobLines(job) ==
  LET heading == JoinTruthy(<<job.role, job.company, job.location>>)
      ends == IF job.isCurrent THEN "Present" ELSE job.endDate
      dates == IF job.startDate = "" THEN ends
               ELSE IF ends = "" THEN job.startDate
               ELSE job.startDate \o " - " \o ends
  IN (IF heading = "" THEN <<>> ELSE <<heading>>)
       \o (IF dates = "" THEN <<>> ELSE <<dates>>)
       \o BulletLines(job.points)
       \o <<"">>

RECURSIVE ClaimedLines(_)
ClaimedLines(jobs) ==
  IF jobs = <<>> THEN <<>> ELSE ClaimedJobLines(Head(jobs)) \o ClaimedLines(Tail(jobs))

\* C30: for every job the render emits, after the heading line and before the
\* bullets, the date line of the start date and the end date, with "Present" in
\* place of the end date if isCurrent is set, omitted only when it would be empty.
C30_DateLine ==
  renderPc = "done" => renderedLines = <<"", "Experience">> \o ClaimedLines(renderJobs)

\* the same for the jobs that are not current with an end date given
C30_DateLineOfConsistentJobs ==
  (/\ renderPc = "done"
   /\ \A j \in 1..Len(renderJobs) : ~(renderJobs[j].isCurrent /\ renderJobs[j].endDate # ""))
    => renderedLines = <<"", "Experience">> \o ClaimedLines(renderJobs)

\* a current job without end date is rendered with Present, after a job without dates
C30_PresentRendered ==
  /\ renderPc = "done"
  /\ Len(renderJobs) = 2
  /\ renderedLines = <<"", "Experience", "Developer · Acme", "- a", "",
                       "Developer", "2019 - Present", "- b", "">>

====
